---- MODULE Spec2Model ----
(***************************************************************************)
(* Verification model of the Meteorological Forecasting Platform.          *)
(*                                                                         *)
(* The pipeline is a chain of batch stages; each stage is modelled as its  *)
(* own state machine over its own variables:                               *)
(*   SpecStore  - the Ingestion Store (src/src/etl/ingestion.py)           *)
(*   SpecProc   - the Fusion & Imputation Engine (src/src/etl/processing.py)*)
(*   SpecFeat   - lag and rolling features                                 *)
(*                (src/src/features/transformation.py)                     *)
(*   SpecTrain  - the trainers' targets and chronological split            *)
(*                (src/src/modeling/trainers/*.py)                         *)
(*   SpecRainExample - the rain target on a worked precipitation series    *)
(*   SpecSim    - the recursive simulator, two runs in lock step           *)
(*                (src/pipelines/05_recursive_forecast.py)                 *)
(*   SpecArt    - the model artifacts: training pipeline, One-Step         *)
(*                Forecaster and Recursive Simulator as readers            *)
(*   SpecRetry  - fetch_with_retry_logic (src/src/utils/resilience.py)     *)
(*   SpecClean  - run_cleaner (src/src/utils/cleaner.py)                   *)
(*   SpecSchema - WeatherRecord validation (src/src/schemas/weather.py)    *)
(*   SpecLoad   - load_and_validate and filter_bad_stations                *)
(*   SpecOneStep - predict_simulation row by row                           *)
(*                (src/pipelines/04_onestep_forecast.py)                   *)
(*   SpecTrainRun - 03_train_model.main on a data set lacking target columns*)
(*   SpecNewRow - the synthetic row of the recursive simulator             *)
(*   SpecWindow - the look-back window of create_features                  *)
(*   SpecAudit  - audit_data and the export of the clean data set          *)
(*   SpecIngest - the window loop of run_ingestion                         *)
(*                (src/pipelines/01_ingest_data.py)                        *)
(***************************************************************************)
EXTENDS Integers, Sequences, FiniteSets, TLC

VARIABLES
    disk,       \* Ingestion Store: file name -> content, of one station/year folder
    ret,        \* Ingestion Store: the locals of the last call at its return
    pin,        \* Fusion Engine: the validated frame and the secondary source's answer
    pout,       \* Fusion Engine: the rows returned by process_stations_logic
    ppc,        \* Fusion Engine: "idle", "input" (not yet processed) or "done"
    fdf,        \* Feature engineering: the frame (rows and engineered columns)
    trn,        \* Trainers: the engineered frame and the last trainer's data sets
    sim,        \* Simulator: the state of two runs of RecursiveSimulator.run
    art,        \* Artifacts: the models directory and the last stage's report
    rt,         \* Resilience: one execution of fetch_with_retry_logic
    cln,        \* Cleaner: the raw data directory and what run_cleaner deleted
    wr,         \* Schema: a raw field value and its validated value
    ld,         \* Load: the raw files, the validated frame and the filtered frame
    os,         \* One-Step Forecaster: the clean data set, the models and the result rows
    tp,         \* Training pipeline: the data set's columns, the model files and the report
    nr,         \* Simulator: the model files, the loaded targets and one station's newest row
    fw,         \* Simulator: an accumulated frame and its last feature rows, two ways
    au,         \* Audit: the processed frame, the frame execute() holds and the file written
    ig          \* Ingestion loop: the cursor, the year being filled and what was done so far

storeVars == <<disk, ret>>
procVars == <<pin, pout, ppc>>
modelVars == <<fdf, trn, sim, art, rt, cln, wr, ld, os, tp, nr, fw, au, ig>>
vars == <<disk, ret, pin, pout, ppc, fdf, trn, sim, art, rt, cln, wr, ld, os, tp, nr, fw, au, ig>>

-----------------------------------------------------------------------------
(* Generic helpers                                                         *)

Range(s) == {s[i] : i \in DOMAIN s}

Min(a, b) == IF a < b THEN a ELSE b
Max(a, b) == IF a < b THEN b ELSE a

\* The sequence f[1], ..., f[n] as a tuple (each element evaluated once).
RECURSIVE TupleRange(_, _, _)
TupleRange(f, lo, hi) ==
    IF lo > hi THEN <<>>
    ELSE IF lo = hi THEN <<f[lo]>>
    ELSE LET mid == (lo + hi) \div 2
         IN TupleRange(f, lo, mid) \o TupleRange(f, mid + 1, hi)
TupleOf(f, n) == TupleRange(f, 1, n)

\* The strictly ascending sequence of the elements of a finite set of integers.
RECURSIVE SetToSeq(_)
SetToSeq(S) ==
    IF S = {} THEN <<>>
    ELSE LET m == CHOOSE x \in S : \A y \in S : x <= y
         IN <<m>> \o SetToSeq(S \ {m})

-----------------------------------------------------------------------------
(* INGESTION STORE  (src/src/etl/ingestion.py, pipelines/01_ingest_data.py) *)

\* Bounds of the store model.
NDays == 2          \* calendar days of the modelled year

\* The payloads the upstream API may return for a day (a re-run may fetch a
\* revised value for a day already stored).
Payloads == {"a", "b"}

\* run_ingestion cuts a year into 6-month windows: two windows per year.
Windows == {1, 2}
FirstHalf == (NDays + 1) \div 2
WindowDays(w) == IF w = 1 THEN 1..FirstHalf ELSE (FirstHalf + 1)..NDays

\* Days the upstream API may return for window w: the days of the window, and
\* (for the first window) the boundary day that starts the next window.
FetchDays(w) == IF w = 1 THEN WindowDays(1) \cup {FirstHalf + 1} ELSE WindowDays(w)

\* A non-empty API payload: one record per returned day, ascending by date,
\* or (first window) a payload that carries the first day twice.
FetchResults(w) ==
    { [i \in 1..Len(SetToSeq(D)) |-> [fecha |-> SetToSeq(D)[i], val |-> v]] :
        D \in (SUBSET FetchDays(w)) \ {{}}, v \in Payloads }
    \cup { <<[fecha |-> 1, val |-> "a"], [fecha |-> 1, val |-> "b"]>> : x \in {w} \cap {1} }

\* File names of the folder: part_<window>.json for each window, data_<year>.json.
PartFiles == {<<"part", w>> : w \in Windows}
DataFile == <<"data", 0>>
FileNames == PartFiles \cup {DataFile}

\* File contents: no file, a file cut short by a failed or interrupted write
\* (never parseable as JSON), or a complete JSON list of records.
NoFile == [kind |-> "absent", recs |-> <<>>]
Truncated == [kind |-> "truncated", recs |-> <<>>]
JsonList(recs) == [kind |-> "list", recs |-> recs]
IsList(c) == c.kind = "list"

\* How a write (open "w"; json.dump; flush; fsync) can end.
\*   ok          everything written and synced
\*   open_error  open() raised: the file is untouched
\*   write_error json.dump raised or the process died after open() truncated
\*               the file: a strict prefix of the text is under the final name
\*   sync_error  the text is complete but flush/fsync raised
WriteOutcomes == {"ok", "open_error", "write_error", "sync_error"}

\* The content left under the path by `with open(path, "w") ... fsync`.
WriteInPlace(old, new, outcome) ==
    CASE outcome = "ok" -> new
      [] outcome = "open_error" -> old
      [] outcome = "write_error" -> Truncated
      [] outcome = "sync_error" -> new

IsPresent(c) == c.kind # "absent"

\* sorted(folder.glob("part_*.json")): the part files present, in name order.
SortedParts(d) == SetToSeq({w \in Windows : IsPresent(d[<<"part", w>>])})

\* The read loop of consolidate_year: all_records after reading files[1..n],
\* where `unreadable` are the files whose open/json.load raises.
RECURSIVE AllRecords(_, _, _, _)
AllRecords(d, files, unreadable, n) ==
    IF n = 0 THEN <<>>
    ELSE LET w == files[n]
             c == d[<<"part", w>>]
             prev == AllRecords(d, files, unreadable, n - 1)
         IN IF w \notin unreadable /\ IsList(c) THEN prev \o c.recs ELSE prev

\* files_processed of consolidate_year.
FilesProcessed(d, files, unreadable) ==
    {w \in Range(files) : w \notin unreadable /\ IsList(d[<<"part", w>>])}

\* Mutant of UniqueRecords: the first record read for a date is kept.
UniqueRecordsFirstWins(all) ==
    [f \in {all[i].fecha : i \in DOMAIN all} |->
        all[CHOOSE i \in DOMAIN all :
                /\ all[i].fecha = f
                /\ \A j \in DOMAIN all : all[j].fecha = f => i <= j]]
\* unique_records = {item["fecha"]: item for item in all_records}: one record
\* per date, the last one read for that date.
UniqueRecords(all) ==
    [f \in {all[i].fecha : i \in DOMAIN all} |->
        all[CHOOSE i \in DOMAIN all :
                /\ all[i].fecha = f
                /\ \A j \in DOMAIN all : all[j].fecha = f => j <= i]]

\* cleaned_list.sort(key=fecha) over the values of unique_records.
CleanedList(all) ==
    LET u == UniqueRecords(all)
        order == SetToSeq(DOMAIN u)
    IN TupleOf([i \in 1..Len(order) |-> u[order[i]]], Len(order))

\* Mutant of CleanupRuns: the cleanup loop placed after the try/except block.
CleanupRunsAfterTry(outcome) == TRUE

\* Whether the cleanup loop of consolidate_year runs: it sits inside the try
\* block, after the write of the merged file.
CleanupRuns(outcome) == outcome = "ok"

Dates(c) == {c.recs[i].fecha : i \in DOMAIN c.recs}

\* The files whose open/json.load raised in the read loop ("Error reading ...").
ReadErrors(d, files, unreadable) ==
    {w \in Range(files) : w \in unreadable \/ d[<<"part", w>>].kind = "truncated"}

NoCall == [op |-> "none", files |-> {}, files_processed |-> {}, read_errors |-> {},
           undeleted |-> {}, outcome |-> "none", n_records |-> 0]

StoreIdle ==
    /\ disk = [f \in FileNames |-> NoFile]
    /\ ret = NoCall

\* DataIngestion.save_partial_data(data, start, end, ...) for window w.
save_partial_data(w, data, outcome) ==
    /\ disk' = [disk EXCEPT ![<<"part", w>>] = WriteInPlace(@, JsonList(data), outcome)]
    /\ ret' = [NoCall EXCEPT !.op = "save", !.outcome = outcome]
    /\ UNCHANGED <<procVars, modelVars>>

\* DataIngestion.consolidate_year(year, ...).
consolidate_year(unreadable, outcome, undeletable) ==
    LET files == SortedParts(disk)
        all == AllRecords(disk, files, unreadable, Len(files))
        processed == FilesProcessed(disk, files, unreadable)
        deleted == IF CleanupRuns(outcome) THEN processed \ undeletable ELSE {}
        locals == [op |-> "consolidate", files |-> Range(files),
                   files_processed |-> processed,
                   read_errors |-> ReadErrors(disk, files, unreadable),
                   undeleted |-> {}, outcome |-> "none", n_records |-> Len(all)]
    IN  /\ UNCHANGED <<procVars, modelVars>>
        /\ IF Len(files) = 0 \/ Len(all) = 0
           THEN \* early return: nothing is written, nothing is deleted
                /\ disk' = disk
                /\ ret' = locals
           ELSE /\ disk' = [f \in FileNames |->
                              IF f = DataFile
                              THEN WriteInPlace(disk[f], JsonList(CleanedList(all)), outcome)
                              ELSE IF f[2] \in deleted THEN NoFile ELSE disk[f]]
                /\ ret' = [locals EXCEPT !.outcome = outcome,
                                         !.undeleted = IF CleanupRuns(outcome)
                                                       THEN processed \cap undeletable
                                                       ELSE {}]

SavePartial ==
    \E w \in Windows : \E data \in FetchResults(w) : \E o \in WriteOutcomes :
        save_partial_data(w, data, o)

Consolidate ==
    \E unreadable \in SUBSET Range(SortedParts(disk)) : \E o \in WriteOutcomes :
        \E undeletable \in SUBSET (Range(SortedParts(disk)) \ unreadable) :
            consolidate_year(unreadable, o, undeletable)

StoreNext == SavePartial \/ Consolidate

-----------------------------------------------------------------------------
(* Claims about the Ingestion Store                                        *)

\* C1: consolidate_year deletes a batch file only after data_{year}.json was
\* written without error, and only a batch file whose records were read into
\* the merge; after a failed write, or for a batch file that could not be
\* read, the batch file is still on disk when consolidate_year returns.
C1_DeleteOnlyAfterMerge ==
    ret.op = "consolidate" =>
        \A w \in ret.files :
            \/ IsPresent(disk[<<"part", w>>])
            \/ /\ ret.outcome = "ok"
               /\ w \in ret.files_processed
               /\ w \notin ret.read_errors
               /\ IsList(disk[DataFile])

\* Witness of C1: a consolidation that found both part files, could not read
\* one of them and kept it, and merged and deleted the other.
C1_Witness ==
    /\ ret.op = "consolidate"
    /\ ret.outcome = "ok"
    /\ \E w1, w2 \in ret.files :
          /\ w1 \in ret.read_errors /\ IsPresent(disk[<<"part", w1>>])
          /\ w2 \in ret.files_processed /\ ~IsPresent(disk[<<"part", w2>>])

\* Witness of the failure case of C1: the write of the merged file failed and
\* every part file found is still there.
C1_WitnessWriteFailed ==
    /\ ret.op = "consolidate"
    /\ ret.outcome = "write_error"
    /\ ret.files_processed # {}

\* A call that met no error of any kind (no read, write or delete error).
CleanCall(r) ==
    r.outcome \in {"ok", "none"} /\ r.read_errors = {} /\ r.undeleted = {}

\* C2 (as claimed): re-running ingestion is safe: a save_partial_data or
\* consolidate_year call that completes without error never removes a date
\* from data_{year}.json, and never stores a date twice.
C2_RerunKeepsDates ==
    [][ CleanCall(ret') =>
            /\ Dates(disk[DataFile]) \subseteq Dates(disk'[DataFile])
            /\ (IsList(disk'[DataFile]) =>
                  \A i, j \in DOMAIN disk'[DataFile].recs :
                     disk'[DataFile].recs[i].fecha = disk'[DataFile].recs[j].fecha
                        => i = j) ]_vars

\* C3 (as claimed): no file under a final name is ever truncated or partially
\* written: each is absent or holds a complete content.
C3_NoPartialFile ==
    \A f \in FileNames : ~IsPresent(disk[f]) \/ IsList(disk[f])

\* The records of the batch files ws, in file-name order and, inside a file,
\* in file position.
RECURSIVE RecordsRead(_, _)
RecordsRead(d, ws) ==
    IF ws = {} THEN <<>>
    ELSE LET w == CHOOSE x \in ws : \A y \in ws : y <= x
         IN RecordsRead(d, ws \ {w}) \o d[<<"part", w>>].recs

\* C16: the merged file written by consolidate_year holds exactly one record
\* for each distinct fecha of the batch files it read, in ascending fecha
\* order, and for a fecha that occurs in several batch records the record
\* read last (files in sorted name order, then position in the file).
C16_MergeLastWins ==
    [][ (ret'.op = "consolidate" /\ ret'.outcome \in {"ok", "sync_error"}) =>
            LET read == RecordsRead(disk, ret'.files_processed)
                merged == disk'[DataFile].recs
            IN /\ IsList(disk'[DataFile])
               /\ {merged[i].fecha : i \in DOMAIN merged} = {read[j].fecha : j \in DOMAIN read}
               /\ \A i, j \in DOMAIN merged : i < j => merged[i].fecha < merged[j].fecha
               /\ \A i \in DOMAIN merged : \E j \in DOMAIN read :
                      /\ merged[i] = read[j]
                      /\ \A k \in DOMAIN read : read[k].fecha = read[j].fecha => k <= j ]_vars

\* Witness of C16: a consolidation merged both batch files, which held more
\* records than distinct dates, and wrote the merged file.
C16_Witness ==
    /\ ret.op = "consolidate"
    /\ ret.outcome = "ok"
    /\ ret.files_processed = Windows
    /\ IsList(disk[DataFile])
    /\ ret.n_records > Len(disk[DataFile].recs)

-----------------------------------------------------------------------------
(* FUSION & IMPUTATION ENGINE  (src/src/etl/processing.py)                 *)

\* Bound of the processing model: the days of the global calendar
\* [global_start, global_end], numbered 1..NCal.
NCal == 12

\* The model calendar has two years; a year has two months.
YearLen == (NCal + 1) \div 2
MonthLen == (YearLen + 1) \div 2
DayOfYear(d) == ((d - 1) % YearLen) + 1
Month(d) == ((DayOfYear(d) - 1) \div MonthLen) + 1

\* global_idx = pd.date_range(global_start, global_end, freq="D").
GlobalIdx == [i \in 1..NCal |-> i]

\* interpolate(method="linear", limit=7).
InterpLimit == 7

\* Numbers are exact rationals <<numerator, denominator>>, denominator > 0;
\* NaN (a missing value) is <<0, 0>>.
NaN == <<0, 0>>
IsNaN(v) == v[2] = 0

RECURSIVE GCD(_, _)
GCD(a, b) == IF b = 0 THEN a ELSE GCD(b, a % b)
Abs(n) == IF n < 0 THEN -n ELSE n
Rat(n, d) == LET g == GCD(Abs(n), d) IN <<n \div g, d \div g>>
RatInt(n) == <<n, 1>>
RatAdd(a, b) == Rat(a[1] * b[2] + b[1] * a[2], a[2] * b[2])
RatSub(a, b) == Rat(a[1] * b[2] - b[1] * a[2], a[2] * b[2])
\* a * k / m for integers k and m > 0
RatScale(a, k, m) == Rat(a[1] * k, a[2] * m)

RECURSIVE RatSum(_, _)
RatSum(vals, idx) ==
    IF idx = {} THEN RatInt(0)
    ELSE LET i == CHOOSE x \in idx : TRUE
         IN RatAdd(vals[i], RatSum(vals, idx \ {i}))

\* Series.mean() over the positions idx, skipping NaN; NaN when none is left.
MeanOver(vals, idx) ==
    LET valid == {i \in idx : ~IsNaN(vals[i])}
    IN IF valid = {} THEN NaN
       ELSE RatScale(RatSum(vals, valid), 1, Cardinality(valid))

\* Series.fillna(other): positionwise.
FillNa(vals, other) ==
    TupleOf([i \in DOMAIN vals |-> IF IsNaN(vals[i]) THEN other[i] ELSE vals[i]], Len(vals))

\* The stations of the model and the values their sensors report on day d.
Stations == {"A", "B"}
Obs(d) == RatInt(9 + d + (IF d % 5 = 0 THEN 3 ELSE 0))
OmObs(d) == RatInt(1000 + 2 * d)

\* df[df["indicativo"] == station_code]
StationRecords(df, st) == SelectSeq(df, LAMBDA r : r.st = st)

\* df["indicativo"].unique(): the stations in order of first appearance.
RECURSIVE UniqueStations(_, _)
UniqueStations(df, n) ==
    IF n = 0 THEN <<>>
    ELSE LET prev == UniqueStations(df, n - 1)
         IN IF df[n].st \in Range(prev) THEN prev ELSE Append(prev, df[n].st)

\* sort_values("fecha").drop_duplicates(subset=["fecha"]): one record per date.
\* The sort is not stable, so which of several records of one date comes first
\* is not fixed: `pick` names the one that does ("first" or "last" in file order).
KeptRecord(recs, d, pick) ==
    LET idx == {i \in DOMAIN recs : recs[i].fecha = d}
        i == IF pick = "first"
             THEN CHOOSE x \in idx : \A y \in idx : x <= y
             ELSE CHOOSE x \in idx : \A y \in idx : y <= x
    IN recs[i]

\* Mutant of Reindex: reindexing onto the station's own dates instead of the
\* global calendar.
ReindexOwnDates(recs, pick) ==
    LET own == SetToSeq({recs[i].fecha : i \in DOMAIN recs})
    IN TupleOf([i \in 1..Len(own) |-> [fecha |-> own[i], tmed |-> KeptRecord(recs, own[i], pick).tmed]], Len(own))

\* set_index("fecha").reindex(global_idx): one row per calendar day, NaN where
\* the station has no record; records outside the calendar are dropped.
Reindex(recs, pick) ==
    TupleOf([i \in 1..NCal |->
        [fecha |-> GlobalIdx[i],
         tmed |-> IF \E j \in DOMAIN recs : recs[j].fecha = GlobalIdx[i]
                  THEN KeptRecord(recs, GlobalIdx[i], pick).tmed
                  ELSE NaN]], NCal)

\* OpenMeteoClient.fetch_solar_data: one row per day from the start date on,
\* n rows in all (none when the request fails, fewer than the calendar when
\* the end is clamped to today); `hole` is a day whose value is missing.
FetchSolarData(n, hole) ==
    TupleOf([i \in 1..n |-> [fecha |-> i, presion |-> IF i = hole THEN NaN ELSE OmObs(i)]], n)

\* pd.merge(df_station, df_om, on="fecha", how="left") over rows[1..n]: every
\* left row once per matching right row, or once with NaN when none matches.
RECURSIVE LeftMerge(_, _, _)
LeftMerge(rows, om, n) ==
    IF n = 0 THEN <<>>
    ELSE LET left == rows[n]
             right == SelectSeq(om, LAMBDA r : r.fecha = left.fecha)
         IN LeftMerge(rows, om, n - 1) \o
            (IF Len(right) = 0
             THEN << [fecha |-> left.fecha, tmed |-> left.tmed, presion |-> NaN] >>
             ELSE TupleOf([k \in 1..Len(right) |->
                    [fecha |-> left.fecha, tmed |-> left.tmed,
                     presion |-> right[k].presion]], Len(right)))

\* Lines 194-217: the secondary columns start as NaN and are replaced by the
\* merge only when the secondary source returned rows.
MergeSecondary(rows, om) ==
    IF Len(om) = 0
    THEN TupleOf([i \in DOMAIN rows |->
            [fecha |-> rows[i].fecha, tmed |-> rows[i].tmed, presion |-> NaN]], Len(rows))
    ELSE LeftMerge(rows, om, Len(rows))

Column(rows, name) == TupleOf([i \in DOMAIN rows |-> rows[i][name]], Len(rows))

LastValid(vals, i) ==
    LET S == {j \in 1..(i - 1) : ~IsNaN(vals[j])}
    IN IF S = {} THEN 0 ELSE CHOOSE x \in S : \A y \in S : y <= x

NextValid(vals, i) ==
    LET S == {j \in (i + 1)..Len(vals) : ~IsNaN(vals[j])}
    IN IF S = {} THEN 0 ELSE CHOOSE x \in S : \A y \in S : x <= y

\* Series.interpolate(method="linear", limit=InterpLimit), with pandas'
\* defaults limit_direction="forward", limit_area=None: rows are equally
\* spaced; NaN before the first valid value stay; of every later run of NaN the
\* first InterpLimit are filled, on the line to the next valid value, or with
\* the last valid value when none follows.
Interpolate(vals) ==
    TupleOf([i \in DOMAIN vals |->
        IF ~IsNaN(vals[i]) THEN vals[i]
        ELSE LET p == LastValid(vals, i)
                 n == NextValid(vals, i)
             IN IF p = 0 THEN NaN
                ELSE IF i - p > InterpLimit THEN NaN
                ELSE IF n = 0 THEN vals[p]
                ELSE RatAdd(vals[p],
                            RatScale(RatSub(vals[n], vals[p]), i - p, n - p))], Len(vals))

\* Lines 243-254: when a NaN is left, fill with the day-of-year mean of the
\* column, then with the month mean of the column so filled.
Climatology(vals, dates) ==
    IF \A i \in DOMAIN vals : ~IsNaN(vals[i]) THEN vals
    ELSE LET daily == TupleOf([i \in DOMAIN vals |->
                        MeanOver(vals, {j \in DOMAIN vals :
                                          DayOfYear(dates[j]) = DayOfYear(dates[i])})], Len(vals))
             v1 == FillNa(vals, daily)
             monthly == TupleOf([i \in DOMAIN vals |->
                          MeanOver(v1, {j \in DOMAIN vals :
                                          Month(dates[j]) = Month(dates[i])})], Len(vals))
         IN FillNa(v1, monthly)

\* fill_val = 1013.0 if col == "presion" else 0.0
FillVal(col) == IF col = "presion" THEN RatInt(1013) ELSE RatInt(0)

\* Mutant of SafetyNet: the default alone, fillna(fill_val).
SafetyNetDefaultOnly(vals, col) ==
    TupleOf([i \in DOMAIN vals |-> IF IsNaN(vals[i]) THEN FillVal(col) ELSE vals[i]], Len(vals))
\* Line 258: ffill().bfill().fillna(fill_val).
SafetyNet(vals, col) ==
    LET ff == TupleOf([i \in DOMAIN vals |->
                 IF ~IsNaN(vals[i]) \/ LastValid(vals, i) = 0 THEN vals[i]
                 ELSE vals[LastValid(vals, i)]], Len(vals))
        bf == TupleOf([i \in DOMAIN vals |->
                 IF ~IsNaN(ff[i]) \/ NextValid(ff, i) = 0 THEN ff[i]
                 ELSE ff[NextValid(ff, i)]], Len(vals))
    IN TupleOf([i \in DOMAIN vals |-> IF IsNaN(bf[i]) THEN FillVal(col) ELSE bf[i]], Len(vals))

\* Mutant of EstFlag: the flag taken from the column after the interpolation.
EstFlagAfterInterpolation(before, interpolated) ==
    TupleOf([i \in DOMAIN before |-> IF IsNaN(interpolated[i]) THEN 1 ELSE 0], Len(before))

\* Line 235: df_station[f"{col}_est"] = df_station[col].isna().astype(int),
\* taken from the column as it is before the interpolation.
EstFlag(before, interpolated) ==
    TupleOf([i \in DOMAIN before |-> IF IsNaN(before[i]) THEN 1 ELSE 0], Len(before))

\* Lines 232-258 for one column: the flag, the three fills, and the column as
\* it was before the fills and after the interpolation.
ImputeColumn(vals, dates, col) ==
    LET interpolated == Interpolate(vals)
    IN [before |-> vals,
        interp |-> interpolated,
        est |-> EstFlag(vals, interpolated),
        final |-> SafetyNet(Climatology(interpolated, dates), col)]

\* The body of the station loop of process_stations_logic (lines 174-269).
ProcessStation(df, st, om, pick) ==
    LET merged == MergeSecondary(Reindex(StationRecords(df, st), pick), om)
        dates == Column(merged, "fecha")
        t == ImputeColumn(Column(merged, "tmed"), dates, "tmed")
        q == ImputeColumn(Column(merged, "presion"), dates, "presion")
    IN TupleOf([i \in DOMAIN merged |->
          [st |-> st, fecha |-> dates[i],
           tmed |-> t.final[i], tmed_est |-> t.est[i],
           tmed_before |-> t.before[i], tmed_interp |-> t.interp[i],
           presion |-> q.final[i], presion_est |-> q.est[i],
           presion_before |-> q.before[i], presion_interp |-> q.interp[i]]], Len(merged))

\* pd.concat(df_list) over the stations stations[1..n].
RECURSIVE ConcatStations(_, _, _, _, _)
ConcatStations(df, stations, om, pick, n) ==
    IF n = 0 THEN <<>>
    ELSE ConcatStations(df, stations, om, pick, n - 1)
         \o ProcessStation(df, stations[n], om, pick)

\* The validated frames the engine is run on: station A observed on the days
\* P, and one of: nothing else; a second record, with a missing value, for A's
\* first day; a record dated after global_end; both of these; a record of
\* another station.
Anomalies == {"none", "dup", "late", "both", "other"}
RawFrame(P, anomaly) ==
    LET days == SetToSeq(P)
        base == TupleOf([i \in 1..Len(days) |->
                   [st |-> "A", fecha |-> days[i], tmed |-> Obs(days[i])]], Len(days))
    IN CASE anomaly = "dup" /\ P # {} ->
                base \o << [st |-> "A", fecha |-> days[1], tmed |-> NaN] >>
         [] anomaly = "late" ->
                << [st |-> "A", fecha |-> NCal + 1, tmed |-> Obs(NCal + 1)] >> \o base
         [] anomaly = "both" /\ P # {} ->
                << [st |-> "A", fecha |-> NCal + 1, tmed |-> Obs(NCal + 1)] >> \o base
                \o << [st |-> "A", fecha |-> days[1], tmed |-> NaN] >>
         [] anomaly = "other" ->
                base \o << [st |-> "B", fecha |-> 1, tmed |-> Obs(2)] >>
         [] OTHER -> base

\* Every pattern of observed days with a complete answer of the secondary
\* source, and every well-covered station with every anomaly and every answer
\* of the secondary source (none, cut at "today", complete; with a missing
\* value or without).
DenseMasks(slack) == {P \in SUBSET (1..NCal) : Cardinality(P) >= NCal - slack}
ProcInputs(anomalies) ==
    { [raw |-> RawFrame(P, "none"), om |-> FetchSolarData(NCal, 0)] :
        P \in SUBSET (1..NCal) }
    \cup
    { [raw |-> RawFrame(P, a), om |-> FetchSolarData(n, hole)] :
        P \in DenseMasks(2), a \in anomalies,
        n \in {0, NCal \div 2, NCal}, hole \in {0, 2} }

NoInput == [raw |-> <<>>, om |-> <<>>]

ProcIdle == pin = NoInput /\ pout = <<>> /\ ppc = "idle"

ProcInit == pin \in ProcInputs(Anomalies) /\ pout = <<>> /\ ppc = "input"

\* WeatherProcessor.process_stations_logic(df).
process_stations_logic(pick) ==
    /\ ppc = "input"
    /\ LET stations == UniqueStations(pin.raw, Len(pin.raw))
       IN pout' = ConcatStations(pin.raw, stations, pin.om, pick, Len(stations))
    /\ ppc' = "done"
    /\ UNCHANGED <<pin, storeVars, modelVars>>

ProcessStationsLogic == \E pick \in {"first", "last"} : process_stations_logic(pick)

ProcNext == ProcessStationsLogic

-----------------------------------------------------------------------------
(* Claims about the Fusion & Imputation Engine                             *)

\* The output rows of one station, in output order.
OutRows(st) == SelectSeq(pout, LAMBDA r : r.st = st)
InputStations == {pin.raw[i].st : i \in DOMAIN pin.raw}

\* C4: for every station, process_stations_logic outputs exactly one row per
\* calendar day of [global_start, global_end], in ascending date order, with no
\* missing day and no duplicate date, whatever the raw records contain
\* (duplicate dates, dates after global_end) and whatever the secondary source
\* returned for the left join.
C4_CalendarComplete ==
    ppc = "done" =>
        \A st \in InputStations :
            /\ Len(OutRows(st)) = NCal
            /\ \A i \in 1..NCal : OutRows(st)[i].fecha = GlobalIdx[i]

\* Witness of C4: a processed station whose raw records held a duplicate date
\* and a date after global_end, joined with a secondary answer that stops
\* before the end of the calendar.
C4_Witness ==
    /\ ppc = "done"
    /\ \E i \in DOMAIN pin.raw : pin.raw[i].fecha > NCal
    /\ \E i, j \in DOMAIN pin.raw :
          i # j /\ pin.raw[i].st = pin.raw[j].st /\ pin.raw[i].fecha = pin.raw[j].fecha
    /\ Len(pin.om) > 0 /\ Len(pin.om) < NCal
    /\ Len(pout) = NCal

\* The flag of a column agrees with the column before the first fill.
FlagMatches(before, interp, final, est) ==
    /\ est \in {0, 1}
    /\ (est = 0) = ~IsNaN(before)
    /\ (est = 0 => final = before /\ interp = before)
    /\ (est = 1 => ~IsNaN(final))

\* C5: for every continuous variable and every output row, the <variable>_est
\* flag is false when the value was present before any fill (for a primary
\* variable: present in a raw record of that station and day, and kept) and
\* true when the value was produced by interpolation, climatology or a default:
\* the flag is the missing mask taken before the first fill.
C5_EstFlags ==
    ppc = "done" =>
        \A k \in DOMAIN pout :
            LET r == pout[k] IN
            /\ FlagMatches(r.tmed_before, r.tmed_interp, r.tmed, r.tmed_est)
            /\ FlagMatches(r.presion_before, r.presion_interp, r.presion, r.presion_est)
            /\ (r.tmed_est = 0 =>
                  \E i \in DOMAIN pin.raw :
                     /\ pin.raw[i].st = r.st /\ pin.raw[i].fecha = r.fecha
                     /\ pin.raw[i].tmed = r.tmed)
            /\ (r.tmed_est = 1 =>
                  \/ \A i \in DOMAIN pin.raw :
                        ~(pin.raw[i].st = r.st /\ pin.raw[i].fecha = r.fecha)
                  \/ \E i \in DOMAIN pin.raw :
                        /\ pin.raw[i].st = r.st /\ pin.raw[i].fecha = r.fecha
                        /\ IsNaN(pin.raw[i].tmed))
            /\ (r.presion_est = 0 =>
                  \E i \in DOMAIN pin.om :
                     pin.om[i].fecha = r.fecha /\ pin.om[i].presion = r.presion)

\* Witness of C5: one output holding an observed value (flag 0), a value
\* produced by interpolation (flag 1) and a value the interpolation left
\* missing, filled by climatology or the default (flag 1).
C5_Witness ==
    /\ ppc = "done"
    /\ \E a, b, c \in DOMAIN pout :
          /\ pout[a].tmed_est = 0 /\ ~IsNaN(pout[a].tmed_before)
          /\ pout[b].tmed_est = 1 /\ ~IsNaN(pout[b].tmed_interp)
          /\ pout[c].tmed_est = 1 /\ IsNaN(pout[c].tmed_interp)
          /\ pout[c].presion_est = 1

\* The run of missing values around position i of a column: the positions of
\* the nearest observed values before and after it (0 when there is none).
RunStart(rows, i) == LastValid(Column(rows, "tmed_before"), i)
RunEnd(rows, i) == NextValid(Column(rows, "tmed_before"), i)

\* C6 (as claimed): a missing value between two observed values is filled by
\* linear interpolation between them if and only if its run of consecutive
\* missing days has at most 7 days; no value inside a longer run is produced
\* by the interpolation.
C6_InterpolationOnlyShortGaps ==
    ppc = "done" =>
        \A st \in InputStations :
            LET rows == OutRows(st) IN
            \A i \in DOMAIN rows :
                LET p == RunStart(rows, i)
                    n == RunEnd(rows, i)
                IN (IsNaN(rows[i].tmed_before) /\ p # 0 /\ n # 0) =>
                      IF n - p - 1 <= InterpLimit
                      THEN rows[i].tmed_interp =
                              RatAdd(rows[p].tmed_before,
                                     RatScale(RatSub(rows[n].tmed_before,
                                                     rows[p].tmed_before),
                                              i - p, n - p))
                      ELSE IsNaN(rows[i].tmed_interp)

\* The station's mean of a column over the days with the day of the year, or
\* with the month, of row i.
DoyMean(vals, dates, i) ==
    MeanOver(vals, {j \in DOMAIN vals : DayOfYear(dates[j]) = DayOfYear(dates[i])})
MonthMean(vals, dates, i) ==
    MeanOver(vals, {j \in DOMAIN vals : Month(dates[j]) = Month(dates[i])})

\* The first two tiers after the interpolation, for the whole column: the
\* value, else the day-of-year mean, else the month mean (of the column as the
\* day-of-year means left it), else still missing.
MeanTiers(interp, dates) ==
    LET v1 == TupleOf([i \in DOMAIN interp |->
                 IF IsNaN(interp[i]) THEN DoyMean(interp, dates, i) ELSE interp[i]],
                 Len(interp))
    IN TupleOf([i \in DOMAIN interp |->
                 IF IsNaN(v1[i]) THEN MonthMean(v1, dates, i) ELSE v1[i]], Len(interp))

\* The column of a station after the tiers of the claim as stated: what the
\* means leave missing holds the default.
TiersAsStated(st, col) ==
    LET rows == OutRows(st)
        v2 == MeanTiers(Column(rows, col \o "_interp"), Column(rows, "fecha"))
    IN TupleOf([i \in DOMAIN v2 |-> IF IsNaN(v2[i]) THEN FillVal(col) ELSE v2[i]], Len(v2))

\* The same with the tier the code has before the default: the station's
\* nearest earlier value of the column, else its nearest later value.
TiersWithNeighbours(st, col) ==
    LET rows == OutRows(st)
        v2 == MeanTiers(Column(rows, col \o "_interp"), Column(rows, "fecha"))
    IN TupleOf([i \in DOMAIN v2 |->
                 IF ~IsNaN(v2[i]) THEN v2[i]
                 ELSE IF LastValid(v2, i) # 0 THEN v2[LastValid(v2, i)]
                 ELSE IF NextValid(v2, i) # 0 THEN v2[NextValid(v2, i)]
                 ELSE FillVal(col)], Len(v2))

\* sol and nubes come out of the same merge as presion and go through the
\* same loop: the column of st imputed under the name col.
SecondaryFinal(st, col) ==
    LET rows == OutRows(st)
    IN ImputeColumn(Column(rows, "presion_before"), Column(rows, "fecha"), col)

\* When the secondary source returned nothing, sol, presion and nubes hold
\* their default on every row and are flagged estimated.
NoSecondaryAllDefault ==
    (ppc = "done" /\ Len(pin.om) = 0) =>
        /\ \A k \in DOMAIN pout :
              pout[k].presion = RatInt(1013) /\ pout[k].presion_est = 1
        /\ \A st \in InputStations : \A col \in {"sol", "nubes"} :
              LET c == SecondaryFinal(st, col)
              IN \A i \in DOMAIN c.final : c.final[i] = RatInt(0) /\ c.est[i] = 1

\* C25 as stated: a value still missing after the interpolation holds the
\* station's day-of-year mean, else the month mean, else the default (1013.0
\* for pressure, 0.0 otherwise); with no answer of the secondary source sol,
\* presion and nubes hold the default on every row, flagged estimated.
C25_TiersAsStated ==
    /\ NoSecondaryAllDefault
    /\ ppc = "done" =>
          \A st \in InputStations : \A col \in {"tmed", "presion"} :
              Column(OutRows(st), col) = TiersAsStated(st, col)

\* C25, amended: a value still missing after the interpolation holds the
\* station's day-of-year mean, else the month mean, else the nearest earlier
\* value of the station's column, else the nearest later one, and the default
\* only when the column has no value at all; with no answer of the secondary
\* source sol, presion and nubes hold the default on every row, flagged
\* estimated.
C25_ImputationTiers ==
    /\ NoSecondaryAllDefault
    /\ ppc = "done" =>
          \A st \in InputStations : \A col \in {"tmed", "presion"} :
              Column(OutRows(st), col) = TiersWithNeighbours(st, col)

\* Witness of C25: a processed station with a value that neither the
\* interpolation nor the two means could fill, which holds a neighbour's value
\* and not the default.
C25_Witness ==
    /\ ppc = "done"
    /\ \E st \in InputStations :
          LET rows == OutRows(st)
              v2 == MeanTiers(Column(rows, "tmed_interp"), Column(rows, "fecha"))
          IN \E i \in DOMAIN rows :
                /\ IsNaN(v2[i])
                /\ rows[i].tmed # FillVal("tmed")
                /\ rows[i].tmed_est = 1
                /\ \E j \in DOMAIN rows : j # i /\ IsNaN(rows[j].tmed_interp) /\ ~IsNaN(v2[j])

\* Witness of C25, second case: the secondary source returned nothing.
C25_WitnessNoSecondary ==
    /\ ppc = "done" /\ Len(pin.om) = 0
    /\ \E k \in DOMAIN pout : pout[k].presion = RatInt(1013) /\ pout[k].presion_est = 1

-----------------------------------------------------------------------------
(* FEATURE ENGINEERING  (src/src/features/transformation.py)               *)

\* Bound of the feature model.
MaxRows == 6        \* rows of the frame handed to the FeatureEngineer

\* The value of the engineered column at frame row i: distinct for every row,
\* so that a value taken from another row is recognisable.
FeatObs(i) == RatInt(i * i)

\* The frames: every arrangement of the two stations over at most MaxRows
\* rows (sorted by station as the trainers pass them, or interleaved as the
\* simulator's accumulated frame is), with at most one missing value.
FeatFrames(stations) ==
    UNION { { TupleOf([i \in 1..n |->
                          [st |-> lab[i],
                           val |-> IF i = hole THEN NaN ELSE FeatObs(i)]], n) :
                lab \in [1..n -> stations], hole \in 0..n } : n \in 1..MaxRows }

\* Mutant of GroupIndices: no groupby, the whole frame is one group.
WholeFrameIndices(rows, g) == SetToSeq(DOMAIN rows)

\* df.groupby(group_col): the frame positions of group g, in frame order.
GroupIndices(rows, g) == SetToSeq({i \in DOMAIN rows : rows[i].st = g})

\* df.groupby(group_col)[col]: the series of the group of frame row i.
GroupSeries(rows, i) ==
    LET idx == GroupIndices(rows, rows[i].st)
    IN TupleOf([k \in DOMAIN idx |-> rows[idx[k]].val], Len(idx))

\* The position of frame row i inside its group.
PosInGroup(rows, i) ==
    LET idx == GroupIndices(rows, rows[i].st)
    IN CHOOSE k \in DOMAIN idx : idx[k] = i

\* Series.shift(periods): the value periods positions earlier (later when
\* periods is negative), NaN where there is none.
Shift(series, periods) ==
    TupleOf([i \in DOMAIN series |->
                IF i - periods \in DOMAIN series THEN series[i - periods] ELSE NaN],
            Len(series))

\* Series.rolling(w).mean(): min_periods defaults to w, so the result is NaN
\* until w values are in the window and whenever one of them is NaN.
RollingMean(series, w) ==
    TupleOf([i \in DOMAIN series |->
                IF i < w THEN NaN
                ELSE IF \E j \in (i - w + 1)..i : IsNaN(series[j]) THEN NaN
                ELSE RatScale(RatSum(series, (i - w + 1)..i), 1, w)],
            Len(series))

\* df.groupby(group_col)[col].shift(lag), aligned on the frame's index.
GroupShift(rows, lag) ==
    TupleOf([i \in DOMAIN rows |-> Shift(GroupSeries(rows, i), lag)[PosInGroup(rows, i)]],
            Len(rows))

\* df.groupby(group_col)[col].transform(lambda x: x.rolling(w).mean())
GroupRolling(rows, w) ==
    TupleOf([i \in DOMAIN rows |-> RollingMean(GroupSeries(rows, i), w)[PosInGroup(rows, i)]],
            Len(rows))

\* The lag lists and window lists the callers pass.
LagLists == { <<1, 2, 3>>, <<1, 2>>, <<1, 2, 7>> }
WindowLists == { <<3>>, <<3, 7>>, <<3, 7, 14>> }

NoFrame == [rows |-> <<>>, lags |-> {}, rolls |-> {}]
FeatIdle == fdf = NoFrame
FeatInit == \E rows \in FeatFrames(Stations) : fdf = [rows |-> rows, lags |-> {}, rolls |-> {}]

\* df[name] = column: a column of that name is replaced.
SetColumns(cols, new) ==
    {c \in cols : \A d \in new : d.k # c.k} \cup new

\* FeatureEngineer.create_lags(df, [col], lags)
create_lags(lags) ==
    /\ fdf' = [fdf EXCEPT !.lags =
                 SetColumns(@, { [k |-> lags[j], col |-> GroupShift(fdf.rows, lags[j])] :
                                 j \in DOMAIN lags })]
    /\ UNCHANGED <<storeVars, procVars, trn, sim, art, rt, cln, wr, ld, os, tp, nr, fw, au, ig>>

\* FeatureEngineer.create_rolling_stats(df, [col], windows)
create_rolling_stats(windows) ==
    /\ fdf' = [fdf EXCEPT !.rolls =
                 SetColumns(@, { [k |-> windows[j], col |-> GroupRolling(fdf.rows, windows[j])] :
                                 j \in DOMAIN windows })]
    /\ UNCHANGED <<storeVars, procVars, trn, sim, art, rt, cln, wr, ld, os, tp, nr, fw, au, ig>>

CreateLags == \E lags \in LagLists : create_lags(lags)
CreateRollingStats == \E windows \in WindowLists : create_rolling_stats(windows)

FeatNext == CreateLags \/ CreateRollingStats

-----------------------------------------------------------------------------
(* Claims about feature engineering                                        *)

\* The frame rows of the station of row i up to and including row i.
OwnRowsUpTo(i) == {j \in 1..i : fdf.rows[j].st = fdf.rows[i].st}

\* C7: for every row t of every station, the lag-k feature is that station's
\* value k of its rows earlier (missing for the station's first k rows, never
\* a value of another station or of a later row), and the rolling-w mean is
\* the average of exactly that station's rows t-w+1..t (missing before the
\* station has w rows), never of a row after t.
C7_FeaturesLookBackInStation ==
    \A i \in DOMAIN fdf.rows :
        LET own == OwnRowsUpTo(i) IN
        /\ \A c \in fdf.lags :
              LET src == {j \in own : Cardinality({m \in own : m > j}) = c.k}
              IN IF src = {} THEN IsNaN(c.col[i])
                 ELSE \A j \in src : c.col[i] = fdf.rows[j].val
        /\ \A c \in fdf.rolls :
              LET win == {j \in own : Cardinality({m \in own : m >= j}) <= c.k}
              IN IF Cardinality(win) < c.k \/ \E j \in win : IsNaN(fdf.rows[j].val)
                 THEN IsNaN(c.col[i])
                 ELSE c.col[i] =
                        RatScale(RatSum([j \in DOMAIN fdf.rows |-> fdf.rows[j].val], win),
                                 1, c.k)

\* Witness of C7: a frame whose stations are interleaved, with both kinds of
\* feature computed, where a row that directly follows a row of the other
\* station has a lag-1 value and a rolling-3 mean.
C7_Witness ==
    \E i \in DOMAIN fdf.rows :
        /\ i > 1 /\ fdf.rows[i - 1].st # fdf.rows[i].st
        /\ \E c \in fdf.lags : c.k = 1 /\ ~IsNaN(c.col[i])
        /\ \E c \in fdf.rolls : c.k = 3 /\ ~IsNaN(c.col[i])

-----------------------------------------------------------------------------
(* TRAINERS  (src/src/modeling/base.py, src/src/modeling/trainers/*.py)    *)

\* Bound of the trainer model.
TCal == 7           \* calendar days of the engineered frame

\* The split dates on the model's calendar, in the order of the program's
\* dates: "2021-01-01" < "2023-01-01" (rain.py, atmosphere.py) and
\* ExperimentConfig.VAL_START_DATE < TEST_START_DATE (temperature.py).
VAL_START == TCal - 4
TEST_START == TCal - 2
VAL_START_DATE == TCal - 3
TEST_START_DATE == TCal - 1

\* THRESHOLD = 0.1 (mm), the rain / no-rain limit of the classifier.
THRESHOLD == Rat(1, 10)

\* a > b on floats: False when either side is NaN.
RatGT(a, b) == ~IsNaN(a) /\ ~IsNaN(b) /\ a[1] * b[2] > b[1] * a[2]

\* The precipitation levels of the model: dry, exactly the threshold, wet.
PrecLevels == { RatInt(0), THRESHOLD, RatInt(5) }

\* The frame after feature engineering and dropna(): both stations, every
\* calendar day, sorted by station and date (base.load_and_prepare).  Station
\* A's precipitation is the input; B's is A's in reverse.  Temperature and
\* humidity are distinct for every row.
TrainRow(st, d, prec) ==
    [st |-> st, fecha |-> d, prec |-> prec,
     tmed |-> RatInt(10 * d + (IF st = "A" THEN 0 ELSE 100)),
     hrMedia |-> RatInt(3 * d + (IF st = "A" THEN 40 ELSE 60))]

TrainFrame(level) ==
    TupleOf([d \in 1..TCal |-> TrainRow("A", d, level[d])], TCal)
    \o TupleOf([d \in 1..TCal |-> TrainRow("B", d, level[TCal + 1 - d])], TCal)

TrainFrames(levels) == { TrainFrame(level) : level \in [1..TCal -> levels] }

\* df[["indicativo", col]] as the frame the groupby works on.
WithVal(rows, col) ==
    TupleOf([i \in DOMAIN rows |-> [st |-> rows[i].st, val |-> rows[i][col]]], Len(rows))

\* The three date filters of the split.
InTrain(d, val_start, test_start) == d < val_start
\* Mutant of InVal: the validation window open at its start.
InValOpen(d, val_start, test_start) == d > val_start /\ d < test_start
InVal(d, val_start, test_start) == d >= val_start /\ d < test_start
InTest(d, val_start, test_start) == d >= test_start

\* train / val / test = df_eng[...] by date.
Split(df, val_start, test_start) ==
    [train |-> SelectSeq(df, LAMBDA r : InTrain(r.fecha, val_start, test_start)),
     val   |-> SelectSeq(df, LAMBDA r : InVal(r.fecha, val_start, test_start)),
     test  |-> SelectSeq(df, LAMBDA r : InTest(r.fecha, val_start, test_start))]

\* The rows of a frame with a target column y.
WithTarget(rows, y) ==
    TupleOf([i \in DOMAIN rows |-> [st |-> rows[i].st, fecha |-> rows[i].fecha, y |-> y[i]]],
            Len(rows))

\* dropna on the target: the rows whose target is not NaN.
DropNaTarget(examples) == SelectSeq(examples, LAMBDA e : ~IsNaN(e.y))

\* y = part.groupby("indicativo")[target].shift(-1); X = part.loc[y.dropna().index]
NextDayExamples(part, target) ==
    DropNaTarget(WithTarget(part, GroupShift(WithVal(part, target), -1)))

\* Mutant of TargetRain: the label of the day itself.
TargetRainSameDay(df) ==
    TupleOf([i \in DOMAIN df |-> IF RatGT(df[i].prec, THRESHOLD) THEN RatInt(1) ELSE RatInt(0)],
            Len(df))
\* (df.groupby("indicativo")["prec"].shift(-1) > THRESHOLD).astype(int)
TargetRain(df) ==
    LET nxt == GroupShift(WithVal(df, "prec"), -1)
    IN TupleOf([i \in DOMAIN df |-> IF RatGT(nxt[i], THRESHOLD) THEN RatInt(1) ELSE RatInt(0)],
               Len(df))

KeyOf(rows) == TupleOf([i \in DOMAIN rows |-> [st |-> rows[i].st, fecha |-> rows[i].fecha]], Len(rows))

\* RainClassifier.run_training: the target is computed on the whole frame,
\* dropna(subset=["target_rain"]) follows, then the split.
RainRun(df) ==
    LET df_eng == DropNaTarget(WithTarget(df, TargetRain(df)))
        parts == Split(df_eng, VAL_START, TEST_START)
    IN [trainer |-> "rain", target |-> "prec",
        val_start |-> VAL_START, test_start |-> TEST_START,
        parts |-> [train |-> KeyOf(parts.train), val |-> KeyOf(parts.val),
                   test |-> KeyOf(parts.test)],
        examples |-> parts]

\* TemperatureModel.run_training / AtmosphereModel.run_training for one target:
\* the split first, then the target inside each partition.
RegressionRun(df, trainer, target, val_start, test_start) ==
    LET parts == Split(df, val_start, test_start)
    IN [trainer |-> trainer, target |-> target,
        val_start |-> val_start, test_start |-> test_start,
        parts |-> [train |-> KeyOf(parts.train), val |-> KeyOf(parts.val),
                   test |-> KeyOf(parts.test)],
        examples |-> [train |-> NextDayExamples(parts.train, target),
                      val   |-> NextDayExamples(parts.val, target),
                      test  |-> NextDayExamples(parts.test, target)]]

NoSplit == [train |-> <<>>, val |-> <<>>, test |-> <<>>]
NoTraining == [trainer |-> "none", target |-> "none", val_start |-> 0, test_start |-> 0,
               parts |-> NoSplit, examples |-> NoSplit]

TrainIdle == trn = [df |-> <<>>, out |-> NoTraining]
TrainInit == \E df \in TrainFrames(PrecLevels) : trn = [df |-> df, out |-> NoTraining]

RainTraining ==
    /\ trn' = [trn EXCEPT !.out = RainRun(trn.df)]
    /\ UNCHANGED <<storeVars, procVars, fdf, sim, art, rt, cln, wr, ld, os, tp, nr, fw, au, ig>>

TemperatureTraining ==
    /\ trn' = [trn EXCEPT !.out =
                 RegressionRun(trn.df, "temperature", "tmed", VAL_START_DATE, TEST_START_DATE)]
    /\ UNCHANGED <<storeVars, procVars, fdf, sim, art, rt, cln, wr, ld, os, tp, nr, fw, au, ig>>

AtmosphereTraining ==
    /\ trn' = [trn EXCEPT !.out =
                 RegressionRun(trn.df, "atmosphere", "hrMedia", VAL_START, TEST_START)]
    /\ UNCHANGED <<storeVars, procVars, fdf, sim, art, rt, cln, wr, ld, os, tp, nr, fw, au, ig>>

TrainNext == RainTraining \/ TemperatureTraining \/ AtmosphereTraining

-----------------------------------------------------------------------------
(* Claims about the trainers                                               *)

PartNames == {"train", "val", "test"}

\* The value of column col of the station's row of day d in the frame.
ValueAt(st, d, col) ==
    LET i == CHOOSE j \in DOMAIN trn.df : trn.df[j].st = st /\ trn.df[j].fecha = d
    IN trn.df[i][col]

\* The target a trainer is meant to pair with the features of day t.
TargetOfNextDay(st, d) ==
    IF trn.out.trainer = "rain"
    THEN IF RatGT(ValueAt(st, d + 1, "prec"), THRESHOLD) THEN RatInt(1) ELSE RatInt(0)
    ELSE ValueAt(st, d + 1, trn.out.target)

\* C8 (as claimed): in every trainer the example of a station's day t has as
\* target that station's value at day t+1, and the last day of each station's
\* series is in no training, validation or evaluation example.
C8_LastDayExcluded ==
    \A p \in PartNames :
        \A i \in DOMAIN trn.out.examples[p] :
            LET e == trn.out.examples[p][i]
            IN /\ e.fecha < TCal
               /\ e.y = TargetOfNextDay(e.st, e.fecha)

Occurrences(rows, key) == Cardinality({i \in DOMAIN rows : rows[i] = key})
PosInFrame(key) ==
    CHOOSE j \in DOMAIN trn.df : trn.df[j].st = key.st /\ trn.df[j].fecha = key.fecha
InFrameOrder(rows) ==
    \A a, b \in DOMAIN rows : a < b => PosInFrame(rows[a]) < PosInFrame(rows[b])

\* C9: in every trainer the partitions are disjoint and chronological: train
\* rows are dated before the validation start, validation rows in [validation
\* start, test start), test rows at or after the test start; every row of the
\* engineered frame is in exactly one partition, in the frame's order; and the
\* examples of a partition are rows of that partition.
C9_ChronologicalSplit ==
    trn.out.trainer # "none" =>
        LET o == trn.out IN
        /\ \A i \in DOMAIN o.parts.train : o.parts.train[i].fecha < o.val_start
        /\ \A i \in DOMAIN o.parts.val :
              o.parts.val[i].fecha >= o.val_start /\ o.parts.val[i].fecha < o.test_start
        /\ \A i \in DOMAIN o.parts.test : o.parts.test[i].fecha >= o.test_start
        /\ \A j \in DOMAIN trn.df :
              LET key == [st |-> trn.df[j].st, fecha |-> trn.df[j].fecha]
              IN Occurrences(o.parts.train, key) + Occurrences(o.parts.val, key)
                    + Occurrences(o.parts.test, key) = 1
        /\ \A p \in PartNames :
              /\ InFrameOrder(o.parts[p])
              /\ \A i \in DOMAIN o.examples[p] :
                    \E k \in DOMAIN o.parts[p] :
                        /\ o.parts[p][k].st = o.examples[p][i].st
                        /\ o.parts[p][k].fecha = o.examples[p][i].fecha

\* Witness of C9: a trained model whose three partitions all hold examples,
\* with a validation row dated exactly at the validation start and a test row
\* dated exactly at the test start.
C9_Witness ==
    /\ trn.out.trainer = "temperature"
    /\ \A p \in PartNames : trn.out.examples[p] # <<>>
    /\ \E i \in DOMAIN trn.out.parts.val : trn.out.parts.val[i].fecha = VAL_START_DATE
    /\ \E i \in DOMAIN trn.out.parts.test : trn.out.parts.test[i].fecha = TEST_START_DATE

-----------------------------------------------------------------------------
(* The rain target on a worked series                                      *)

\* The precipitation series of the worked example: 0.0, 0.3, 0.05, 5.0 mm.
ExamplePrec == <<RatInt(0), Rat(3, 10), Rat(1, 20), RatInt(5)>>

\* Frames of Len(ExamplePrec) days whose values are those of the example;
\* station B holds station A's series in reverse.
ExampleFrames ==
    LET n == Len(ExamplePrec) IN
    { TupleOf([d \in 1..n |-> TrainRow("A", d, level[d])], n)
      \o TupleOf([d \in 1..n |-> TrainRow("B", d, level[n + 1 - d])], n) :
      level \in [1..n -> Range(ExamplePrec)] }

RainExampleInit == \E df \in ExampleFrames : trn = [df |-> df, out |-> NoTraining]
RainExampleNext == RainTraining

\* Station st holds series in the input frame.
HoldsSeries(st, series) ==
    \A i \in DOMAIN trn.df :
        trn.df[i].st = st => trn.df[i].prec = series[trn.df[i].fecha]

\* The targets of station st in the examples of the run, as (day, target)
\* pairs; a day with no example has no pair.
RainTargetsOf(st) ==
    { <<e.fecha, e.y>> :
        e \in { x \in UNION { Range(trn.out.examples[p]) : p \in PartNames } : x.st = st } }

-----------------------------------------------------------------------------
(* RECURSIVE SIMULATOR  (src/pipelines/05_recursive_forecast.py)           *)

\* Bounds of the simulator model.
HistDays == 3       \* real days before the cutoff date
SimDays == 3        \* days_to_predict

\* cutoff_date / start_date: the first simulated day.
Cutoff == HistDays + 1

\* timedelta(days=40): the look-back of create_features.
FeatureWindow == 40

\* FeatureConfig.LAGS and FeatureConfig.WINDOWS.
LAGS == <<1, 2, 7>>
WINDOWS == <<3, 7, 14>>

\* The temperatures of the model (cold, warm).
SimVals == {0, 1}

\* LabelEncoder().fit_transform(df["indicativo"]): the rank of the station
\* among the distinct stations of the frame it is fitted on.
StationOrder == <<"A", "B">>
LabelEncode(df, st) ==
    LET present == {df[i].st : i \in DOMAIN df}
        rank(x) == CHOOSE k \in DOMAIN StationOrder : StationOrder[k] = x
    IN Cardinality({x \in present : rank(x) < rank(st)})

\* The clean data set: both stations, every day up to the end of the target
\* year, sorted by station and date.  Station B reports the opposite of A.
FullFrame(hist, future) ==
    LET value(d) == IF d < Cutoff THEN hist[d] ELSE future[d - HistDays]
        n == HistDays + SimDays
        rows == TupleOf([d \in 1..n |-> [st |-> "A", fecha |-> d, tmed |-> RatInt(value(d))]], n)
                \o TupleOf([d \in 1..n |-> [st |-> "B", fecha |-> d, tmed |-> RatInt(1 - value(d))]], n)
    IN TupleOf([i \in DOMAIN rows |->
                   [st |-> rows[i].st, fecha |-> rows[i].fecha, tmed |-> rows[i].tmed,
                    station_id |-> RatInt(LabelEncode(rows, rows[i].st))]], Len(rows))

\* Mutant of SeedHistory: the simulation frame seeded with the whole data set.
SeedWholeFrame(df_full) == df_full

\* df_sim = df_full[df_full["fecha"] < cutoff_date]
SeedHistory(df_full) == SelectSeq(df_full, LAMBDA r : r.fecha < Cutoff)

\* The names of the features a model may split on.
FeatureNames ==
    {"tmed", "tmed_lag_1", "tmed_lag_2", "tmed_lag_7", "tmed_trend",
     "tmed_roll_3", "tmed_roll_7", "tmed_roll_14", "station_id"}

\* The features the modelled models split on.
SplitFeatures == {"tmed", "tmed_lag_2", "tmed_trend", "tmed_roll_3", "station_id"}

\* a - b on floats.
Trend(a, b) == IF IsNaN(a) \/ IsNaN(b) THEN NaN ELSE RatSub(a, b)

\* The lag, trend and rolling columns of create_features, on the frame
\* df_window.
WindowFeatures(df_window) ==
    LET series == WithVal(df_window, "tmed")
        lag_1 == GroupShift(series, LAGS[1])
        lag_2 == GroupShift(series, LAGS[2])
        lag_7 == GroupShift(series, LAGS[3])
        roll_3 == GroupRolling(series, WINDOWS[1])
        roll_7 == GroupRolling(series, WINDOWS[2])
        roll_14 == GroupRolling(series, WINDOWS[3])
    IN TupleOf([i \in DOMAIN df_window |->
                   [st |-> df_window[i].st, fecha |-> df_window[i].fecha,
                    tmed |-> df_window[i].tmed, station_id |-> df_window[i].station_id,
                    tmed_lag_1 |-> lag_1[i], tmed_lag_2 |-> lag_2[i], tmed_lag_7 |-> lag_7[i],
                    tmed_trend |-> Trend(lag_1[i], lag_2[i]),
                    tmed_roll_3 |-> roll_3[i], tmed_roll_7 |-> roll_7[i],
                    tmed_roll_14 |-> roll_14[i]]], Len(df_window))

\* Mutant of cutoff_date: a look-back of WINDOWS[2] days.
cutoff_date_week(fecha_max) == fecha_max - WINDOWS[2]
\* cutoff_date = df_accumulated["fecha"].max() - timedelta(days=40)
cutoff_date(fecha_max) == fecha_max - FeatureWindow

\* RecursiveSimulator.create_features(df_accumulated): the feature rows of
\* the last FeatureWindow days of the accumulated frame.
create_features(df_accumulated) ==
    LET last == CHOOSE d \in {df_accumulated[i].fecha : i \in DOMAIN df_accumulated} :
                    \A i \in DOMAIN df_accumulated : df_accumulated[i].fecha <= d
    IN WindowFeatures(SelectSeq(df_accumulated, LAMBDA r : r.fecha >= cutoff_date(last)))

\* Mutant of TailOne: every row of the feature frame.
TailAll(df_feats) == df_feats
\* df_feats.groupby("indicativo").tail(1): the last row of every station, in
\* frame order.
TailOne(df_feats) ==
    SelectSeq(df_feats,
              LAMBDA r : \A i \in DOMAIN df_feats :
                            df_feats[i].st = r.st => df_feats[i].fecha <= r.fecha)

\* The pre-trained models: a model is a deterministic function of the feature
\* row; the family here is one split on one feature.
Models == [feature : SplitFeatures, warm_if_above : BOOLEAN]

\* model.predict(X[req_feats])[0]
Predict(model, X) ==
    IF RatGT(X[model.feature], Rat(1, 2)) = model.warm_if_above THEN RatInt(1) ELSE RatInt(0)

\* The rows appended for target_date: one per station, from the station's last
\* feature row and the station's metadata.
NewRows(model, last_day_feats, stations_meta, target_date) ==
    TupleOf([k \in DOMAIN last_day_feats |->
                [st |-> last_day_feats[k].st, fecha |-> target_date,
                 tmed |-> Predict(model, last_day_feats[k]),
                 station_id |-> stations_meta[last_day_feats[k].st]]],
            Len(last_day_feats))

\* df_sim.drop_duplicates("indicativo")[[..., "station_id"]]
StationsMeta(df_sim) ==
    [st \in {df_sim[i].st : i \in DOMAIN df_sim} |->
        df_sim[CHOOSE i \in DOMAIN df_sim :
                  df_sim[i].st = st /\ \A j \in 1..(i - 1) : df_sim[j].st # st].station_id]

\* run(), up to the loop.
StartRun(df_full) ==
    LET df_sim == SeedHistory(df_full)
    IN [df_full |-> df_full, df_sim |-> df_sim, stations_meta |-> StationsMeta(df_sim),
        predictions_log |-> <<>>, df_res |-> <<>>]

\* One iteration of the loop of run(), for day start_date + i.
Iteration(model, run, i) ==
    LET target_date == Cutoff + i
        df_feats == create_features(run.df_sim)
        new_rows == NewRows(model, TailOne(df_feats), run.stations_meta, target_date)
    IN [run EXCEPT !.df_sim = @ \o new_rows,
                   !.predictions_log = @ \o new_rows]

\* pd.merge(df_res, df_real_2025, on=["fecha", "indicativo"], how="left")
MergeReal(predictions_log, df_full) ==
    LET real == SelectSeq(df_full, LAMBDA r : r.fecha >= Cutoff)
        match(p) == {i \in DOMAIN real : real[i].st = p.st /\ real[i].fecha = p.fecha}
    IN TupleOf([k \in DOMAIN predictions_log |->
                   [st |-> predictions_log[k].st, fecha |-> predictions_log[k].fecha,
                    tmed |-> predictions_log[k].tmed,
                    tmed_real |-> IF match(predictions_log[k]) = {} THEN NaN
                                  ELSE real[CHOOSE i \in match(predictions_log[k]) : TRUE].tmed]],
               Len(predictions_log))

NoRun == [df_full |-> <<>>, df_sim |-> <<>>, stations_meta |-> <<>>,
          predictions_log |-> <<>>, df_res |-> <<>>]
SimIdle == sim = [model |-> [feature |-> "none", warm_if_above |-> FALSE],
                  a |-> NoRun, b |-> NoRun, i |-> 0, pc |-> "idle"]

\* Two runs with the same model and the same history before the cutoff; run a
\* reads a cold target year, run b any target year.
SimInit ==
    \E model \in Models, hist \in [1..HistDays -> SimVals], future \in [1..SimDays -> SimVals] :
        sim = [model |-> model,
               a |-> StartRun(FullFrame(hist, [d \in 1..SimDays |-> 0])),
               b |-> StartRun(FullFrame(hist, future)),
               i |-> 0, pc |-> "loop"]

\* for i in range(days_to_predict): one iteration, in both runs.
SimIterate ==
    /\ sim.pc = "loop" /\ sim.i < SimDays
    /\ sim' = [sim EXCEPT !.a = Iteration(sim.model, @, sim.i),
                          !.b = Iteration(sim.model, @, sim.i),
                          !.i = @ + 1]
    /\ UNCHANGED <<storeVars, procVars, fdf, trn, art, rt, cln, wr, ld, os, tp, nr, fw, au, ig>>

\* After the loop: the real values of the target year are joined to the log.
SimFinish ==
    /\ sim.pc = "loop" /\ sim.i = SimDays
    /\ sim' = [sim EXCEPT !.a.df_res = MergeReal(sim.a.predictions_log, sim.a.df_full),
                          !.b.df_res = MergeReal(sim.b.predictions_log, sim.b.df_full),
                          !.pc = "done"]
    /\ UNCHANGED <<storeVars, procVars, fdf, trn, art, rt, cln, wr, ld, os, tp, nr, fw, au, ig>>

SimNext == SimIterate \/ SimFinish

-----------------------------------------------------------------------------
(* Claims about the recursive simulator                                    *)

\* The accumulated frame of a run holds real rows dated before the cutoff and
\* the run's own synthetic rows, all dated before the next target date.
AccumulatedOnly(run) ==
    \A k \in DOMAIN run.df_sim :
        LET r == run.df_sim[k] IN
        /\ r.fecha < Cutoff + sim.i
        /\ IF r.fecha < Cutoff
           THEN \E j \in DOMAIN run.df_full : run.df_full[j] = r
           ELSE \E j \in DOMAIN run.predictions_log : run.predictions_log[j] = r

\* The real values are in the result only once the loop has ended, next to the
\* predictions and without changing them.
RealJoinedLast(run) ==
    IF sim.pc # "done" THEN run.df_res = <<>>
    ELSE /\ Len(run.df_res) = Len(run.predictions_log)
         /\ \A k \in DOMAIN run.df_res :
               /\ run.df_res[k].tmed = run.predictions_log[k].tmed
               /\ \E j \in DOMAIN run.df_full :
                     /\ run.df_full[j].st = run.df_res[k].st
                     /\ run.df_full[j].fecha = run.df_res[k].fecha
                     /\ run.df_full[j].tmed = run.df_res[k].tmed_real

\* C10: at every iteration of RecursiveSimulator.run the features come from
\* the accumulated state only (real history before the cutoff and earlier
\* synthetic rows, all dated before target_date): two runs that differ only in
\* the real observations dated at or after the cutoff log identical
\* predictions, and the real values are joined only after the last iteration.
C10_PredictionsIgnoreTargetYear ==
    sim.pc # "idle" =>
        /\ sim.a.predictions_log = sim.b.predictions_log
        /\ sim.a.df_sim = sim.b.df_sim
        /\ AccumulatedOnly(sim.a) /\ AccumulatedOnly(sim.b)
        /\ RealJoinedLast(sim.a) /\ RealJoinedLast(sim.b)

\* Witness of C10: two finished runs over data sets that differ on every day
\* of the target year, whose logs hold a prediction for every station and day,
\* not all the same, and whose joined real values differ.
C10_Witness ==
    /\ sim.pc = "done"
    /\ \A j \in DOMAIN sim.a.df_full :
          sim.a.df_full[j].fecha >= Cutoff => sim.a.df_full[j].tmed # sim.b.df_full[j].tmed
    /\ Len(sim.a.predictions_log) = 2 * SimDays
    /\ \E j, k \in DOMAIN sim.a.predictions_log :
          /\ sim.a.predictions_log[j].st = sim.a.predictions_log[k].st
          /\ sim.a.predictions_log[j].tmed # sim.a.predictions_log[k].tmed
    /\ \A k \in DOMAIN sim.a.df_res : sim.a.df_res[k].tmed_real # sim.b.df_res[k].tmed_real

\* The rows of station st dated d in a frame.
RowsOn(rows, st, d) == {k \in DOMAIN rows : rows[k].st = st /\ rows[k].fecha = d}

\* After sim.i iterations a run has logged, per station, exactly one synthetic
\* row for each of the days cutoff .. cutoff + sim.i - 1, the rows of one
\* iteration together, and its timeline holds exactly one row per station and
\* day up to the last simulated day.
OneRowPerStationDay(run) ==
    /\ Len(run.predictions_log) = Cardinality(Stations) * sim.i
    /\ \A st \in Stations :
          /\ \A d \in 1..(HistDays + SimDays) :
                Cardinality(RowsOn(run.df_sim, st, d)) = IF d < Cutoff + sim.i THEN 1 ELSE 0
          /\ \A i \in 0..(SimDays - 1) :
                Cardinality(RowsOn(run.predictions_log, st, Cutoff + i))
                    = IF i < sim.i THEN 1 ELSE 0
    /\ \A k \in DOMAIN run.predictions_log :
          run.predictions_log[k].fecha = Cutoff + ((k - 1) \div Cardinality(Stations))

\* C26: RecursiveSimulator.run ends after exactly days_to_predict iterations
\* whatever the models predict; iteration i appends per station exactly one
\* synthetic row dated cutoff + i, the accumulated timeline has exactly one row
\* per station and day, and the output has days_to_predict rows per station.
C26_SimulatorTerminates ==
    sim.pc # "idle" =>
        /\ sim.i \in 0..SimDays
        /\ OneRowPerStationDay(sim.a) /\ OneRowPerStationDay(sim.b)
        /\ sim.pc = "done" =>
              /\ sim.i = SimDays
              /\ \A st \in Stations :
                    Cardinality({k \in DOMAIN sim.b.df_res : sim.b.df_res[k].st = st}) = SimDays

\* Witness of C26: a finished run whose predictions were not all the same.
C26_Witness ==
    /\ sim.pc = "done" /\ sim.i = SimDays
    /\ Len(sim.b.df_res) = Cardinality(Stations) * SimDays
    /\ \E j, k \in DOMAIN sim.b.df_res : sim.b.df_res[j].tmed # sim.b.df_res[k].tmed

-----------------------------------------------------------------------------
(* MODEL ARTIFACTS AND INFERENCE  (src/src/modeling, src/pipelines/03..05) *)

\* A column or feature name is the sequence of the pieces its f-string joins:
\* f"{col}_lag_{lag}" is col \o <<"lag", "1">>.
Cols(S) == {<<c>> : c \in S}
LagName(col, lag) == col \o <<"lag", ToString(lag)>>
RollName(col, w) == col \o <<"roll", ToString(w)>>

\* FeatureConfig.
TARGETS == <<"tmed", "tmin", "tmax", "sol", "hrMedia", "velmedia", "rain">>
LAG_COLS ==
    {"tmed", "tmin", "tmax", "presMin", "hrMedia", "presion", "nubes", "velmedia", "sol", "prec"}
ROLL_COLS == {"tmed", "hrMedia", "presion", "nubes"}

\* The columns of the clean data set: the WeatherRecord fields that
\* process_stations_logic keeps, the Open-Meteo columns and the _est flags.
CleanColumns ==
    Cols({"fecha", "indicativo", "nombre", "provincia", "altitud", "tmed", "prec",
          "tmin", "tmax", "dir", "velmedia", "racha", "hrMedia", "sol", "presion",
          "nubes", "tmed_est", "tmin_est", "tmax_est", "hrMedia_est", "velmedia_est",
          "racha_est", "presion_est", "nubes_est", "sol_est", "prec_est", "dir_est"})

add_time_cyclicality(cols) == cols \cup Cols({"month_sin", "month_cos", "day_sin", "day_cos"})
add_wind_components(cols) ==
    IF <<"dir">> \in cols THEN cols \cup Cols({"wind_sin", "wind_cos"}) ELSE cols
\* create_lags / create_rolling_stats and their inlined copies, on column names.
LagColumns(cols, lag_cols, lags) ==
    cols \cup {LagName(c, k) : c \in lag_cols \cap cols, k \in lags}
RollColumns(cols, roll_cols, windows) ==
    cols \cup {RollName(c, w) : c \in roll_cols \cap cols, w \in windows}
TrendColumns(cols) ==
    cols \cup {<<c, "trend">> : c \in {x \in {"tmed", "tmin", "tmax"} : LagName(<<x>>, 1) \in cols}}
\* BaseModel.load_and_prepare: cyclic features and the station encoding.
load_and_prepare(cols) == add_time_cyclicality(cols) \cup Cols({"station_id"})

\* feature_names = list(X_train.columns) of the three trainers.
RainFeatureNames(clean) ==
    LET a == load_and_prepare(clean)
        b == a \cup (IF <<"presion">> \in a THEN Cols({"presion_diff"}) ELSE {})
               \cup (IF <<"nubes">> \in a /\ <<"hrMedia">> \in a
                     THEN Cols({"cloud_moisture"}) ELSE {})
        c == LagColumns(b, Cols({"prec", "presion", "presion_diff", "hrMedia", "nubes",
                                 "velmedia", "sol", "tmin", "cloud_moisture"}), {1, 2, 3})
    IN RollColumns(c, Cols({"presion"}), {3})
         \ Cols({"fecha", "indicativo", "nombre", "provincia", "target_rain"})
AtmosphereFeatureNames(clean) ==
    LET a == add_wind_components(load_and_prepare(clean))
        b == RollColumns(a, Cols({"hrMedia", "presion", "nubes"}), {3, 7})
        lag_cols == Cols({"hrMedia", "presion", "nubes", "velmedia", "sol", "tmed",
                          "wind_sin", "wind_cos"})
                    \cup {RollName(<<"hrMedia">>, 3), RollName(<<"presion">>, 3)}
    IN LagColumns(b, lag_cols, {1, 2}) \ Cols({"fecha", "indicativo", "nombre", "provincia"})
TemperatureFeatureNames(clean) ==
    LET a == LagColumns(load_and_prepare(clean), Cols(LAG_COLS), Range(LAGS))
    IN RollColumns(TrendColumns(a), Cols({"tmed"}), Range(WINDOWS))
         \ Cols({"fecha", "indicativo", "nombre", "provincia"})

\* The columns the two forecasters build before they select feat_names.
ServeColumns(cols) ==
    LET a == add_wind_components(add_time_cyclicality(cols))
        b == TrendColumns(LagColumns(a, Cols(LAG_COLS), Range(LAGS)))
    IN RollColumns(b, Cols(ROLL_COLS), Range(WINDOWS))
OneStepColumns(clean) == ServeColumns(clean)
SimulatorColumns(clean) == ServeColumns(clean \cup Cols({"station_id"}))

\* File names, as the pieces they are joined from.
MODEL_PREFIX == "lgbm_"
MODEL_RAIN == <<"lgbm_", "rain_classifier", ".pkl">>
PklName(name) == <<MODEL_PREFIX, name, ".pkl">>
\* The name both readers look a target up under.
LookupName(t) == IF t = "rain" THEN MODEL_RAIN ELSE PklName(t)
ModelFiles == {PklName(t) : t \in Range(TARGETS)} \cup {MODEL_RAIN}

NoArtifact == [kind |-> "absent", model |-> 0, feature_names |-> {}]
\* BaseModel._save_to_disk: joblib.dump({"model": ..., "feature_names": ...}).
save_to_disk(dir, model, name, feature_names) ==
    [dir EXCEPT ![PklName(name)] =
        [kind |-> "dict", model |-> model, feature_names |-> feature_names]]
\* RainClassifier.run_training: joblib.dump(model, "lgbm_rain_classifier.pkl").
DumpRainModel(dir, model) ==
    [dir EXCEPT ![MODEL_RAIN] = [kind |-> "model", model |-> model, feature_names |-> {}]]

RECURSIVE SaveAll(_, _, _, _)
SaveAll(dir, model, targets, feature_names) ==
    IF targets = {} THEN dir
    ELSE LET t == CHOOSE x \in targets : TRUE
         IN SaveAll(save_to_disk(dir, model, t, feature_names), model,
                    targets \ {t}, feature_names)

\* The targets a reader loads: the file exists and holds a dict.
LoadedTargets(dir) == {t \in Range(TARGETS) : dir[LookupName(t)].kind = "dict"}

\* The raw outputs of a model, and the targets the claims bound.
RawPreds == {-3, 8, 120}
AtmosphereTargets == {"sol", "hrMedia", "velmedia"}

\* atmosphere.py: np.maximum(preds, 0), then the upper limits.
AtmosphereClamp(target, v) ==
    LET p == Max(v, 0)
    IN IF target = "hrMedia" THEN Min(p, 100) ELSE IF target = "sol" THEN Min(p, 16) ELSE p
\* 04 and 05: np.clip for "sol" and "hrMedia" only.
ForecastClip(target, v) ==
    IF target = "sol" THEN Max(0, Min(v, 16))
    ELSE IF target = "hrMedia" THEN Max(0, Min(v, 100)) ELSE v

NoReport == [by |-> "none", loaded |-> {}, preds |-> <<>>, zero_filled |-> <<>>]
ArtIdle == art = [dir |-> <<>>, trained |-> FALSE, out |-> NoReport]
ArtInit == art = [dir |-> [f \in ModelFiles |-> NoArtifact], trained |-> FALSE, out |-> NoReport]

\* 03_train_model.main: the three trainers, each saving its models; fit names
\* the fitted model of each trainer and raw its output on a test row.
train_model(fit, raw) ==
    /\ art' = [dir |-> SaveAll(
                         SaveAll(DumpRainModel(art.dir, fit.rain), fit.atmosphere,
                                 AtmosphereTargets, AtmosphereFeatureNames(CleanColumns)),
                         fit.temperature, {"tmed", "tmin", "tmax"},
                         TemperatureFeatureNames(CleanColumns)),
               trained |-> TRUE,
               out |-> [by |-> "trainers", loaded |-> {},
                        preds |-> [t \in AtmosphereTargets |-> AtmosphereClamp(t, raw[t])],
                        zero_filled |-> <<>>]]
    /\ UNCHANGED <<storeVars, procVars, fdf, trn, sim, rt, cln, wr, ld, os, tp, nr, fw, au, ig>>

\* The report of a forecaster that built the columns served: of every loaded
\* target the features it had to add as 0, and the reported predictions.
ForecastReport(by, served, raw) ==
    LET loaded == LoadedTargets(art.dir)
    IN [by |-> by, loaded |-> loaded,
        preds |-> [t \in loaded \cap AtmosphereTargets |-> ForecastClip(t, raw[t])],
        zero_filled |-> [t \in loaded |-> art.dir[LookupName(t)].feature_names \ served]]

\* 04_onestep_forecast.predict_simulation
predict_simulation(raw) ==
    /\ art' = [art EXCEPT !.out = ForecastReport("onestep", OneStepColumns(CleanColumns), raw)]
    /\ UNCHANGED <<storeVars, procVars, fdf, trn, sim, rt, cln, wr, ld, os, tp, nr, fw, au, ig>>

\* RecursiveSimulator: _load_models and the prediction of one new row.
simulator_predict(raw) ==
    /\ art' = [art EXCEPT !.out = ForecastReport("simulator", SimulatorColumns(CleanColumns), raw)]
    /\ UNCHANGED <<storeVars, procVars, fdf, trn, sim, rt, cln, wr, ld, os, tp, nr, fw, au, ig>>

TrainModel ==
    \E fit \in [rain : {1, 2}, atmosphere : {1, 2}, temperature : {1}],
       raw \in [AtmosphereTargets -> RawPreds] : train_model(fit, raw)
PredictSimulation == \E raw \in [AtmosphereTargets -> RawPreds] : predict_simulation(raw)
SimulatorPredict == \E raw \in [AtmosphereTargets -> RawPreds] : simulator_predict(raw)

ArtNext == TrainModel \/ PredictSimulation \/ SimulatorPredict

-----------------------------------------------------------------------------
(* Claims about the model artifacts                                        *)

\* C11 (as claimed): once the training pipeline has run, every target of
\* FeatureConfig.TARGETS has, under the file name the forecasters look up, an
\* artifact holding the model with its feature-name list, and a forecaster
\* that runs then loads every target.
C11_EveryTargetPersistedAndLoaded ==
    art.trained =>
        \A t \in Range(TARGETS) :
            /\ art.dir[LookupName(t)].kind = "dict"
            /\ art.dir[LookupName(t)].feature_names # {}
            /\ art.out.by \in {"onestep", "simulator"} => t \in art.out.loaded

\* C12 (as claimed): every feature name of a loaded model is among the columns
\* the forecaster builds, so that no trained feature is zero-filled.
C12_NoFeatureZeroFilled ==
    (art.trained /\ art.out.by \in {"onestep", "simulator"}) =>
        \A t \in art.out.loaded : art.out.zero_filled[t] = {}

\* C13 (as claimed): every reported prediction is in its physical range: wind
\* speed and sunshine are not negative, humidity is in [0, 100] and sunshine
\* is at most 16 hours.
C13_PredictionsInPhysicalRange ==
    \A t \in DOMAIN art.out.preds :
        LET v == art.out.preds[t]
        IN /\ v >= 0
           /\ t = "hrMedia" => v <= 100
           /\ t = "sol" => v <= 16

-----------------------------------------------------------------------------
(* RESILIENCE  (src/src/utils/resilience.py)                               *)

MaxRetries == 3
\* APIs.RETRY_DELAY, the cooldown after a rate-limit signal, in seconds.
RETRY_DELAY == 70

\* What one call of fetch_func does: return data, return an empty result,
\* raise an exception, or raise the ConnectionError of a 429 answer.
Outcomes == {"data", "empty", "exception", "rate_limit"}
Requests == {"w1", "w2"}
Delays == {0, 2}

RECURSIVE Pow2(_)
Pow2(k) == IF k = 0 THEN 1 ELSE 2 * Pow2(k - 1)

\* The outcomes caught by "except ConnectionError" and "except Exception".
CaughtOnlyConnectionError(outcome) == outcome = "rate_limit"
Caught(outcome) == outcome \in {"rate_limit", "exception"}

\* The time.sleep calls that follow a call of fetch_func at an attempt.
WaitAlwaysBackoff(outcome, attempt, max_retries, delay) ==
    IF outcome \in {"empty", "exception", "rate_limit"} /\ attempt < max_retries - 1
    THEN <<delay * Pow2(attempt)>> ELSE <<>>
WaitAfter(outcome, attempt, max_retries, delay) ==
    IF outcome = "rate_limit" THEN <<RETRY_DELAY>>
    ELSE IF outcome \in {"empty", "exception"} /\ attempt < max_retries - 1
         THEN <<delay * Pow2(attempt)>>
         ELSE <<>>

\* The events of an execution: the calls of fetch_func and the sleeps.
CallEvent(args, attempt, outcome) ==
    [e |-> "call", args |-> args, attempt |-> attempt, outcome |-> outcome, secs |-> 0]
SleepEvent(args, attempt, secs) ==
    [e |-> "sleep", args |-> args, attempt |-> attempt, outcome |-> "", secs |-> secs]
\* The data a successful call returns: not empty, and its own.
DataOf(args, attempt) == <<[args |-> args, attempt |-> attempt]>>

RetryIdle ==
    rt = [pc |-> "idle", args |-> "", max_retries |-> 0, delay |-> 0, attempt |-> 0,
          log |-> <<>>, result |-> <<>>]
\* fetch_with_retry_logic(fetch_func, max_retries, delay, args) is entered.
RetryInit ==
    rt \in {[pc |-> "loop", args |-> a, max_retries |-> m, delay |-> d, attempt |-> 0,
             log |-> <<>>, result |-> <<>>] :
            a \in Requests, m \in 0..MaxRetries, d \in Delays}

\* One iteration of "for attempt in range(max_retries)".
fetch_attempt(outcome) ==
    /\ rt.pc = "loop"
    /\ rt.attempt < rt.max_retries
    /\ LET call == CallEvent(rt.args, rt.attempt, outcome)
           sleeps == IF outcome \in {"exception", "rate_limit"} /\ ~Caught(outcome)
                     THEN <<>>
                     ELSE WaitAfter(outcome, rt.attempt, rt.max_retries, rt.delay)
           log == rt.log \o <<call>>
                    \o TupleOf([i \in 1..Len(sleeps) |->
                                   SleepEvent(rt.args, rt.attempt, sleeps[i])], Len(sleeps))
       IN rt' = IF outcome = "data"
                THEN [rt EXCEPT !.pc = "returned", !.log = log,
                                !.result = DataOf(rt.args, rt.attempt)]
                ELSE IF outcome \in {"exception", "rate_limit"} /\ ~Caught(outcome)
                THEN [rt EXCEPT !.pc = "raised", !.log = log]
                ELSE [rt EXCEPT !.attempt = rt.attempt + 1, !.log = log]
    /\ UNCHANGED <<storeVars, procVars, fdf, trn, sim, art, cln, wr, ld, os, tp, nr, fw, au, ig>>

\* The loop is exhausted: return [].
retry_exhausted ==
    /\ rt.pc = "loop"
    /\ rt.attempt >= rt.max_retries
    /\ rt' = [rt EXCEPT !.pc = "returned", !.result = <<>>]
    /\ UNCHANGED <<storeVars, procVars, fdf, trn, sim, art, cln, wr, ld, os, tp, nr, fw, au, ig>>

FetchAttempt == \E outcome \in Outcomes : fetch_attempt(outcome)

RetryNext == FetchAttempt \/ retry_exhausted

-----------------------------------------------------------------------------
(* Claims about the retry policy                                           *)

CallsOf(log) == SelectSeq(log, LAMBDA ev : ev.e = "call")

\* C14: fetch_func is called at most max_retries times, one call after the
\* other (attempts 0, 1, 2, ...); no call follows a call that returned data;
\* the function never ends in an exception, and when it has returned, the
\* result is the data of the call that returned data, or [] if none did.
C14_BoundedRetry ==
    LET calls == CallsOf(rt.log)
    IN /\ Len(calls) <= rt.max_retries
       /\ \A i \in 1..Len(calls) :
            /\ calls[i].attempt = i - 1
            /\ calls[i].args = rt.args
            /\ i < Len(calls) => calls[i].outcome # "data"
       /\ rt.pc # "raised"
       /\ rt.pc = "returned" =>
            IF Len(calls) > 0 /\ calls[Len(calls)].outcome = "data"
            THEN rt.result = DataOf(rt.args, Len(calls) - 1)
            ELSE rt.result = <<>> /\ Len(calls) = rt.max_retries

C14_Witness ==
    LET calls == CallsOf(rt.log)
    IN /\ rt.pc = "returned"
       /\ rt.result = <<>>
       /\ Len(calls) = 3
       /\ {calls[i].outcome : i \in 1..3} = {"empty", "exception", "rate_limit"}

\* In a finished execution, the event log[i] is a call with this outcome.
IsCall(i, outcomes) == rt.log[i].e = "call" /\ rt.log[i].outcome \in outcomes
SleepsAt(i, secs) ==
    i <= Len(rt.log) /\ rt.log[i].e = "sleep" /\ rt.log[i].secs = secs
RetriesAt(i, attempt) ==
    /\ i <= Len(rt.log)
    /\ rt.log[i].e = "call"
    /\ rt.log[i].args = rt.args
    /\ rt.log[i].attempt = attempt
\* A generic exception or an empty response that is retried waited
\* delay * 2^k before the retry.
BackoffBeforeRetry ==
    \A i \in 1..Len(rt.log) :
        (IsCall(i, {"empty", "exception"}) /\ rt.log[i].attempt < rt.max_retries - 1) =>
            /\ SleepsAt(i + 1, rt.delay * Pow2(rt.log[i].attempt))
            /\ RetriesAt(i + 2, rt.log[i].attempt + 1)

-----------------------------------------------------------------------------
(* RAW DIRECTORY CLEANER  (src/src/utils/cleaner.py)                       *)

NYears == 3
YearNames == 1..NYears
StationDirs == {"s1", "s2"}
\* What a year folder holds: it does not exist, it is empty, it holds only
\* files that are not .json, or it holds at least one .json file.
YearKinds == {"absent", "empty", "other", "json"}

\* json_files = list(year_dir.glob("*.json")) is not empty.
HasJson(kind) == kind = "json"
\* year_dirs: the numeric-named folders of the station, sorted by int(name).
YearDirsOf(years) == SetToSeq({y \in YearNames : years[y] # "absent"})

\* Mutant of StopsAfterData: the loop never breaks.
NeverStops(data_found) == FALSE
\* "if data_found_in_station: break"
StopsAfterData(data_found) == data_found

\* The year loop from position i on: the folders shutil.rmtree is called on.
RECURSIVE VisitYears(_, _, _, _)
VisitYears(years, year_dirs, i, data_found) ==
    IF i > Len(year_dirs) \/ StopsAfterData(data_found) THEN {}
    ELSE IF HasJson(years[year_dirs[i]])
         THEN VisitYears(years, year_dirs, i + 1, TRUE)
         ELSE {year_dirs[i]} \cup VisitYears(years, year_dirs, i + 1, data_found)

\* One iteration of the station loop; rmtree raises for the folders in
\* undeletable, rmdir raises if rmdir_fails.
CleanStation(st, undeletable, rmdir_fails) ==
    LET deleted == VisitYears(st.years, YearDirsOf(st.years), 1, FALSE) \ undeletable
        years == [y \in YearNames |-> IF y \in deleted THEN "absent" ELSE st.years[y]]
        empty == ~st.extra /\ \A y \in YearNames : years[y] = "absent"
    IN [present |-> st.present /\ ~(empty /\ ~rmdir_fails), years |-> years,
        extra |-> st.extra]

CleanIdle == cln = [fs |-> <<>>, deleted |-> {}, ran |-> FALSE]
\* The raw directory before a run: s1 with any year folders and possibly other
\* entries, s2 with empty year folders after a first one that may hold data.
CleanInit ==
    cln \in {[fs |-> [s \in StationDirs |->
                        IF s = "s1" THEN [present |-> TRUE, years |-> y1, extra |-> x]
                        ELSE [present |-> TRUE, years |-> y2, extra |-> FALSE]],
              deleted |-> {}, ran |-> FALSE] :
             y1 \in [YearNames -> YearKinds],
             y2 \in {[y \in YearNames |-> IF y = 1 THEN k ELSE "empty"] : k \in {"empty", "json"}},
             x \in BOOLEAN}

run_cleaner(undeletable, rmdir_fails) ==
    /\ cln' = [fs |-> [s \in StationDirs |->
                         IF cln.fs[s].present
                         THEN CleanStation(cln.fs[s], undeletable, rmdir_fails)
                         ELSE cln.fs[s]],
               deleted |-> {<<s, y>> \in StationDirs \X YearNames :
                              /\ cln.fs[s].present
                              /\ y \in VisitYears(cln.fs[s].years,
                                                  YearDirsOf(cln.fs[s].years), 1, FALSE)
                              /\ y \notin undeletable},
               ran |-> TRUE]
    /\ UNCHANGED <<storeVars, procVars, fdf, trn, sim, art, rt, wr, ld, os, tp, nr, fw, au, ig>>

RunCleaner ==
    \E undeletable \in SUBSET YearNames, rmdir_fails \in BOOLEAN :
        run_cleaner(undeletable, rmdir_fails)

CleanNext == RunCleaner

-----------------------------------------------------------------------------
(* Claims about the cleaner                                                *)

\* C17: run_cleaner never deletes a year folder that holds a .json file, and
\* deletes no year folder later than the earliest year folder of the station
\* that holds data, so that empty later years are kept.
C17_CleanerStopsAtData ==
    [][ \A s \in StationDirs, y \in YearNames :
            (cln.fs[s].years[y] # "absent" /\ cln'.fs[s].years[y] = "absent") =>
                \A z \in 1..y : ~HasJson(cln.fs[s].years[z]) ]_vars

\* Witness of C17: a run deleted an early empty year of a station and kept an
\* empty year that lies after the station's first year with data.
C17_Witness ==
    /\ cln.ran
    /\ \E s \in StationDirs : \E y1, y2, y3 \in YearNames :
          /\ y1 < y2 /\ y2 < y3
          /\ <<s, y1>> \in cln.deleted
          /\ cln.fs[s].years[y2] = "json"
          /\ cln.fs[s].years[y3] = "empty"

-----------------------------------------------------------------------------
(* RECORD SCHEMA  (src/src/schemas/weather.py)                             *)

MaxLen == 3

\* The characters of the modelled raw strings. Strings are sequences of them.
Digits == {"0", "1", "5"}
Chars == Digits \cup {",", ".", "-", " ", "I", "p", "x"}
Strings(maxlen) == UNION {[1..n -> Chars] : n \in 0..maxlen}

\* A raw JSON value of a numeric field: null, a string, a number, a list.
Null == [t |-> "null", s |-> <<>>, n |-> RatInt(0)]
Str(s) == [t |-> "str", s |-> s, n |-> RatInt(0)]
Num(r) == [t |-> "num", s |-> <<>>, n |-> r]
List == [t |-> "list", s |-> <<>>, n |-> RatInt(0)]
RawValues(maxlen) ==
    {Null, List, Num(RatInt(0)), Num(Rat(31, 2))} \cup {Str(s) : s \in Strings(maxlen)}

\* What the validator hands on: None, a float, or a raised ValueError.
None == [kind |-> "None", val |-> RatInt(0)]
Float(r) == [kind |-> "float", val |-> r]
ValueError == [kind |-> "ValueError", val |-> RatInt(0)]

\* str.replace(a, b), str.strip() and str.lower() on the modelled characters.
Replace(s, a, b) == [i \in DOMAIN s |-> IF s[i] = a THEN b ELSE s[i]]
RECURSIVE Strip(_)
Strip(s) ==
    IF s # <<>> /\ Head(s) = " " THEN Strip(Tail(s))
    ELSE IF s # <<>> /\ s[Len(s)] = " " THEN Strip(SubSeq(s, 1, Len(s) - 1))
    ELSE s
Lower(s) == [i \in DOMAIN s |-> IF s[i] = "I" THEN "i" ELSE s[i]]

DigitValue(c) == IF c = "0" THEN 0 ELSE IF c = "1" THEN 1 ELSE 5
RECURSIVE DigitsValue(_)
DigitsValue(ds) ==
    IF ds = <<>> THEN 0
    ELSE 10 * DigitsValue(SubSeq(ds, 1, Len(ds) - 1)) + DigitValue(ds[Len(ds)])
RECURSIVE Pow10(_)
Pow10(k) == IF k = 0 THEN 1 ELSE 10 * Pow10(k - 1)

\* float(s) on a stripped string: an optional sign, digits with at most one
\* point and at least one digit; anything else raises ValueError.
PyFloat(s) ==
    LET neg == s # <<>> /\ Head(s) = "-"
        body == IF neg THEN Tail(s) ELSE s
        dots == {i \in DOMAIN body : body[i] = "."}
        wellformed == /\ \A i \in DOMAIN body : body[i] \in Digits \cup {"."}
                      /\ Cardinality(dots) <= 1
                      /\ \E i \in DOMAIN body : body[i] \in Digits
        n == DigitsValue(SelectSeq(body, LAMBDA c : c \in Digits))
        scale == IF dots = {} THEN 0 ELSE Len(body) - (CHOOSE i \in dots : TRUE)
    IN IF wellformed THEN Float(Rat(IF neg THEN 0 - n ELSE n, Pow10(scale)))
       ELSE ValueError

\* Mutant of OnValueError: the ValueError of float() is not caught.
Propagate(r) == r
\* try: return float(v_clean) / except ValueError: return None
OnValueError(r) == IF r.kind = "ValueError" THEN None ELSE r

\* WeatherRecord.parse_float_spanish(v)
parse_float_spanish(v) ==
    IF v.t = "null" \/ (v.t = "str" /\ v.s = <<>>) THEN None
    ELSE IF v.t = "num" THEN Float(v.n)
    ELSE IF v.t = "str"
         THEN LET v_clean == Strip(Replace(v.s, ",", "."))
              IN IF Lower(v_clean) = <<"i", "p">> THEN Float(RatInt(0))
                 ELSE OnValueError(PyFloat(v_clean))
         ELSE None

SchemaIdle == wr = [raw |-> Null, out |-> None, done |-> FALSE]
\* A raw value of a numeric field of a record about to be validated.
SchemaInit == wr \in {[raw |-> v, out |-> None, done |-> FALSE] : v \in RawValues(MaxLen)}

\* WeatherRecord(**item): the "before" validator of the numeric field.
validate_field ==
    /\ ~wr.done
    /\ wr' = [wr EXCEPT !.out = parse_float_spanish(wr.raw), !.done = TRUE]
    /\ UNCHANGED <<storeVars, procVars, fdf, trn, sim, art, rt, cln, ld, os, tp, nr, fw, au, ig>>

SchemaNext == validate_field

-----------------------------------------------------------------------------
(* Claims about the record schema                                          *)

\* s is digits, one comma, digits.
IsCommaDecimal(s, i) ==
    /\ 1 < i /\ i < Len(s)
    /\ s[i] = ","
    /\ \A j \in DOMAIN s : j # i => s[j] \in Digits
\* The number a decimal-comma string with the comma at position i writes.
CommaDecimalValue(s, i) ==
    Rat(DigitsValue(SubSeq(s, 1, i - 1)) * Pow10(Len(s) - i)
          + DigitsValue(SubSeq(s, i + 1, Len(s))), Pow10(Len(s) - i))
\* s cannot be read as a number: it holds a letter and is not the token Ip
\* (with blanks around it).
IsUnparseable(s) ==
    (\E j \in DOMAIN s : s[j] \in {"I", "p", "x"}) /\ Strip(s) # <<"I", "p">>

\* C18: after validation of a numeric field, a decimal-comma string has
\* become its number ("1,5" is 1.5), "Ip" has become 0.0, None and the empty
\* string are None, a string that is no number is None, and the validator
\* raised nothing; so a missing or unreadable value is never 0.
C18_NumericParsing ==
    wr.done =>
        /\ wr.out.kind # "ValueError"
        /\ wr.raw.t = "null" => wr.out = None
        /\ wr.raw.t = "str" =>
              /\ wr.raw.s = <<>> => wr.out = None
              /\ wr.raw.s = <<"I", "p">> => wr.out = Float(RatInt(0))
              /\ \A i \in DOMAIN wr.raw.s :
                    IsCommaDecimal(wr.raw.s, i) =>
                        wr.out = Float(CommaDecimalValue(wr.raw.s, i))
              /\ wr.raw.s = <<"1", ",", "5">> => wr.out = Float(<<3, 2>>)
              /\ IsUnparseable(wr.raw.s) => wr.out = None

\* Witness of C18: the string "1,5" was validated to the float 1.5.
C18_Witness ==
    wr.done /\ wr.raw = Str(<<"1", ",", "5">>) /\ wr.out = Float(<<3, 2>>)

\* Witness of the unreadable case: a string with a letter was validated to None.
C18_WitnessUnparseable ==
    wr.done /\ wr.raw = Str(<<"x", "1">>) /\ wr.out = None

-----------------------------------------------------------------------------
(* VALIDATED LOAD AND COVERAGE FILTER  (src/src/etl/processing.py)         *)

LDays == 3
MaxItems == 3

\* PipelineParams.START_DATE and END_DATE as day numbers; day 0 lies before
\* the range.
global_start == 1
global_end == LDays
\* self.min_coverage_ratio = 0.85
min_coverage_ratio == Rat(17, 20)

\* The items of a raw JSON list: a record that validates, a record whose
\* fecha cannot be parsed, and an item that is not a mapping.
RawItems ==
    {[kind |-> "record", st |-> s, day |-> d] : s \in Stations, d \in 0..LDays}
    \cup {[kind |-> "baddate", st |-> "A", day |-> 0], [kind |-> "notdict", st |-> "", day |-> 0]}
\* WeatherRecord(**item): passes, raises ValidationError, or raises TypeError.
Validate(item) ==
    CASE item.kind = "record" -> "ok"
      [] item.kind = "baddate" -> "ValidationError"
      [] item.kind = "notdict" -> "TypeError"

DataList(items) == [name |-> "data", content |-> "list", items |-> items]
\* The raw directory: a data file with any items, and a second file that is
\* a batch file, a file that is not JSON, a JSON object, or a short data file.
RawDirs(maxitems) ==
    {<<DataList(items), other>> :
        items \in UNION {[1..k -> RawItems] : k \in 0..maxitems},
        other \in {[name |-> "part", content |-> "list",
                    items |-> <<[kind |-> "record", st |-> "B", day |-> 1]>>],
                   [name |-> "data", content |-> "broken", items |-> <<>>],
                   [name |-> "data", content |-> "object", items |-> <<>>],
                   DataList(<<[kind |-> "record", st |-> "B", day |-> 1]>>),
                   DataList(<<>>)}}

\* Mutant of CaughtPerRecord: no handler around the single record.
CaughtByFileHandler(exc) == FALSE
\* "except ValidationError: continue" inside the item loop.
CaughtPerRecord(exc) == exc = "ValidationError"

\* The item loop from item i on: the records appended to valid_records. An
\* exception not caught per record ends the file ("except Exception: continue").
RECURSIVE ValidItems(_, _)
ValidItems(items, i) ==
    IF i > Len(items) THEN <<>>
    ELSE LET exc == Validate(items[i])
         IN IF exc # "ok" /\ ~CaughtPerRecord(exc) THEN <<>>
            ELSE IF exc # "ok" THEN ValidItems(items, i + 1)
            ELSE (IF items[i].day >= global_start
                  THEN <<[st |-> items[i].st, day |-> items[i].day]>> ELSE <<>>)
                 \o ValidItems(items, i + 1)
\* The body of the file loop for one file.
FileRecords(file) ==
    IF file.name = "part" \/ file.content # "list" THEN <<>>
    ELSE ValidItems(file.items, 1)
RECURSIVE ValidRecords(_, _)
ValidRecords(files, n) ==
    IF n = 0 THEN <<>> ELSE ValidRecords(files, n - 1) \o FileRecords(files[n])

LoadIdle == ld = [pc |-> "idle", files |-> <<>>, df |-> <<>>, out |-> <<>>]
LoadInit ==
    ld \in {[pc |-> "raw", files |-> fs, df |-> <<>>, out |-> <<>>] : fs \in RawDirs(MaxItems)}

\* WeatherProcessor.load_and_validate
load_and_validate ==
    /\ ld.pc = "raw"
    /\ LET valid_records == ValidRecords(ld.files, Len(ld.files))
       IN ld' = IF valid_records = <<>>
                THEN [ld EXCEPT !.pc = "failed"]
                ELSE [ld EXCEPT !.pc = "loaded", !.df = valid_records]
    /\ UNCHANGED <<storeVars, procVars, fdf, trn, sim, art, rt, cln, wr, os, tp, nr, fw, au, ig>>

\* WeatherProcessor.filter_bad_stations(df)
filter_bad_stations ==
    /\ ld.pc = "loaded"
    /\ LET df == ld.df
           total_days == global_end - global_start
           counts == [s \in {df[i].st : i \in DOMAIN df} |->
                        Cardinality({df[i].day : i \in {j \in DOMAIN df : df[j].st = s}})]
           valid_stations ==
               {s \in DOMAIN counts :
                   counts[s] * min_coverage_ratio[2] >= min_coverage_ratio[1] * total_days}
       IN ld' = [ld EXCEPT !.pc = "filtered",
                           !.out = SelectSeq(df, LAMBDA r : r.st \in valid_stations)]
    /\ UNCHANGED <<storeVars, procVars, fdf, trn, sim, art, rt, cln, wr, os, tp, nr, fw, au, ig>>

LoadNext == load_and_validate \/ filter_bad_stations

-----------------------------------------------------------------------------
(* Claims about the validated load and the coverage filter                 *)

\* A file whose records the load reads, all of whose items are records.
IsRecordFile(file) ==
    /\ file.name = "data" /\ file.content = "list"
    /\ \A i \in DOMAIN file.items : file.items[i].kind # "notdict"
\* A record that validates and is not before global_start.
IsValidItem(item) == item.kind = "record" /\ item.day >= global_start

\* C19: a record whose fecha cannot be parsed is dropped alone: every valid
\* record (one that validates and is not before global_start) of a file of
\* records is loaded, whatever else the file and the other files hold, and
\* the load fails only if no file holds a valid record.
C19_BadDateDropsOnlyItself ==
    ld.pc # "raw" =>
        \A f \in DOMAIN ld.files : \A i \in DOMAIN ld.files[f].items :
            (IsRecordFile(ld.files[f]) /\ IsValidItem(ld.files[f].items[i])) =>
                /\ ld.pc # "failed"
                /\ \E j \in DOMAIN ld.df :
                      ld.df[j] = [st |-> ld.files[f].items[i].st,
                                  day |-> ld.files[f].items[i].day]

\* Witness of C19: a file with a valid record before and after a record with
\* an unparseable fecha was loaded, next to a file that is not JSON.
C19_Witness ==
    /\ ld.pc = "loaded"
    /\ ld.files[1].items = <<[kind |-> "record", st |-> "A", day |-> 1],
                             [kind |-> "baddate", st |-> "A", day |-> 0],
                             [kind |-> "record", st |-> "A", day |-> 2]>>
    /\ ld.files[2].content = "broken"
    /\ ld.df = <<[st |-> "A", day |-> 1], [st |-> "A", day |-> 2]>>

\* Witness of the failing load: only a record with an unparseable fecha.
C19_WitnessFailed ==
    /\ ld.pc = "failed"
    /\ ld.files[1].items = <<[kind |-> "baddate", st |-> "A", day |-> 0]>>

\* The distinct days of [global_start, global_end] station s was observed on.
ObservedDays(s) ==
    {d \in global_start..global_end : \E i \in DOMAIN ld.df : ld.df[i] = [st |-> s, day |-> d]}

\* C20 (as claimed): filter_bad_stations keeps a station if and only if the
\* number of distinct days it was observed on is at least 85% of the number
\* of days in [global_start, global_end]; a station below contributes no row.
C20_CoverageFilter ==
    ld.pc = "filtered" =>
        \A s \in {ld.df[i].st : i \in DOMAIN ld.df} :
            (\E i \in DOMAIN ld.out : ld.out[i].st = s)
                <=> (Cardinality(ObservedDays(s)) * 100
                        >= 85 * Cardinality(global_start..global_end))

-----------------------------------------------------------------------------
(* ONE-STEP FORECASTER, ROW BY ROW  (src/pipelines/04_onestep_forecast.py) *)

\* df_eng: the engineered frame over the whole clean data set.  The clean
\* data set has no station_id column, so that feature is added as 0.
OneStepFeatures(df) ==
    LET series == WithVal(df, "tmed")
        lag_1 == GroupShift(series, LAGS[1])
        lag_2 == GroupShift(series, LAGS[2])
        roll_3 == GroupRolling(series, WINDOWS[1])
    IN TupleOf([i \in DOMAIN df |->
                   [st |-> df[i].st, fecha |-> df[i].fecha, tmed |-> df[i].tmed,
                    station_id |-> RatInt(0),
                    tmed_lag_1 |-> lag_1[i], tmed_lag_2 |-> lag_2[i],
                    tmed_trend |-> Trend(lag_1[i], lag_2[i]),
                    tmed_roll_3 |-> roll_3[i]]], Len(df))

\* df_target = df_eng[df_eng["fecha"].dt.year == target_year]
TargetYearRows(df_eng) == SelectSeq(df_eng, LAMBDA r : r.fecha >= Cutoff)

\* Mutant of ShiftedPreds: the series shifted without the groupby.
ShiftedWholeSeries(raw_preds, results) ==
    Shift(TupleOf([i \in DOMAIN raw_preds |-> raw_preds[i].val], Len(raw_preds)), 1)
\* temp_series.groupby(results["indicativo"]).shift(1)
ShiftedPreds(raw_preds, results) == GroupShift(raw_preds, 1)

\* The shifted predictions of one loaded model over df_target.
PredColumn(model, df_target) ==
    LET raw_preds == TupleOf([i \in DOMAIN df_target |->
                                 [st |-> df_target[i].st,
                                  val |-> Predict(model, df_target[i])]], Len(df_target))
    IN ShiftedPreds(raw_preds, df_target)

\* results, after dropna(subset=["pred_tmed"]).
OneStepResults(models, df_eng) ==
    LET df_target == TargetYearRows(df_eng)
        pred_tmed == PredColumn(models.tmed, df_target)
        pred_tmin == PredColumn(models.tmin, df_target)
        results == TupleOf([i \in DOMAIN df_target |->
                               [st |-> df_target[i].st, fecha |-> df_target[i].fecha,
                                real_tmed |-> df_target[i].tmed,
                                pred_tmed |-> pred_tmed[i], pred_tmin |-> pred_tmin[i]]],
                           Len(df_target))
    IN SelectSeq(results, LAMBDA r : ~IsNaN(r.pred_tmed))

NoModel == [feature |-> "none", warm_if_above |-> FALSE]
OneStepIdle == os = [models |-> [tmed |-> NoModel, tmin |-> NoModel], df |-> <<>>,
                     df_eng |-> <<>>, results |-> <<>>, pc |-> "idle"]
\* The clean data set and two loaded models.
OneStepInit ==
    \E m1 \in Models, m2 \in {m \in Models : m.feature = "tmed_trend"},
       hist \in [1..HistDays -> SimVals], future \in [1..SimDays -> SimVals] :
        os = [models |-> [tmed |-> m1, tmin |-> m2],
              df |-> FullFrame(hist, future), df_eng |-> <<>>, results |-> <<>>,
              pc |-> "start"]

\* predict_simulation(), seen row by row.
predict_rows ==
    /\ os.pc = "start"
    /\ LET df_eng == OneStepFeatures(os.df)
       IN os' = [os EXCEPT !.df_eng = df_eng,
                           !.results = OneStepResults(os.models, df_eng), !.pc = "done"]
    /\ UNCHANGED <<storeVars, procVars, fdf, trn, sim, art, rt, cln, wr, ld, tp, nr, fw, au, ig>>

OneStepNext == predict_rows

-----------------------------------------------------------------------------
(* Claims about the One-Step Forecaster                                    *)

\* The engineered row of station st on day d.
EngineeredRow(st, d) ==
    os.df_eng[CHOOSE i \in DOMAIN os.df_eng :
                  os.df_eng[i].st = st /\ os.df_eng[i].fecha = d]

\* C21: every output row (station, date d) holds, for each loaded target, the
\* prediction made from the same station's row of day d-1 and the real value
\* of day d; the output has a row for exactly the station days of the target
\* year whose previous day is in the target year too, once each.
C21_OneStepAlignment ==
    os.pc = "done" =>
        /\ \A k \in DOMAIN os.results :
              LET r == os.results[k] IN
              /\ r.fecha > Cutoff
              /\ r.pred_tmed = Predict(os.models.tmed, EngineeredRow(r.st, r.fecha - 1))
              /\ r.pred_tmin = Predict(os.models.tmin, EngineeredRow(r.st, r.fecha - 1))
              /\ r.real_tmed = EngineeredRow(r.st, r.fecha).tmed
              /\ \A j \in DOMAIN os.results :
                    (os.results[j].st = r.st /\ os.results[j].fecha = r.fecha) => j = k
        /\ \A i \in DOMAIN os.df :
              os.df[i].fecha > Cutoff =>
                  \E k \in DOMAIN os.results :
                      os.results[k].st = os.df[i].st /\ os.results[k].fecha = os.df[i].fecha

\* Witness of C21: a finished run whose previous-day prediction differs from
\* what the same model gives on the row of the day itself and on the other
\* station's row of the previous day.
C21_Witness ==
    /\ os.pc = "done"
    /\ \E k \in DOMAIN os.results :
          LET r == os.results[k] IN
          /\ r.pred_tmed # Predict(os.models.tmed, EngineeredRow(r.st, r.fecha))
          /\ \E other \in {"A", "B"} \ {r.st} :
                r.pred_tmed # Predict(os.models.tmed, EngineeredRow(other, r.fecha - 1))

-----------------------------------------------------------------------------
(* TRAINING PIPELINE ON AN INCOMPLETE DATA SET  (src/pipelines/03_train_model.py) *)

\* Bound: how many target columns the clean data set may lack.
MaxMissing == 2

\* The historical column each target is trained on.
TargetColumn(t) == IF t = "rain" THEN <<"prec">> ELSE <<t>>
\* The columns each trainer reports for a target.
ReportColumns(t) == IF t = "rain" THEN {"prob_rain", "is_raining"} ELSE {"pred_" \o t}

\* TemperatureModel.run_training: "if target not in df_eng.columns: continue".
TemperatureTargets(clean) == {t \in {"tmed", "tmin", "tmax"} : <<t>> \in clean}

\* AtmosphereModel.run_training: the loop over targets reads
\* train.groupby("indicativo")[target] without a test; the first target whose
\* column is absent raises KeyError.  The targets trained before that.
RECURSIVE AtmosphereTrained(_, _)
AtmosphereTrained(targets, clean) ==
    IF targets = <<>> \/ <<Head(targets)>> \notin clean THEN {}
    ELSE {Head(targets)} \cup AtmosphereTrained(Tail(targets), clean)

TrainRunIdle == tp = [clean |-> {}, fit |-> 0, dir |-> <<>>, reported |-> {}, pc |-> "idle"]
TrainRunInit ==
    \E missing \in {m \in SUBSET {TargetColumn(t) : t \in Range(TARGETS)} :
                        Cardinality(m) <= MaxMissing},
       fit \in {1, 2} :
        tp = [clean |-> CleanColumns \ missing, fit |-> fit,
              dir |-> [f \in ModelFiles |-> NoArtifact], reported |-> {}, pc |-> "rain"]

\* RainClassifier(data_file).run_training()
rain_run_training ==
    /\ tp.pc = "rain"
    /\ tp' = IF <<"prec">> \notin tp.clean
             THEN [tp EXCEPT !.pc = "KeyError"]
             ELSE [tp EXCEPT !.dir = DumpRainModel(tp.dir, tp.fit),
                             !.reported = ReportColumns("rain"),
                             !.pc = "atmosphere"]
    /\ UNCHANGED <<storeVars, procVars, fdf, trn, sim, art, rt, cln, wr, ld, os, nr, fw, au, ig>>

\* AtmosphereModel(data_file).run_training()
atmosphere_run_training ==
    /\ tp.pc = "atmosphere"
    /\ LET targets == <<"sol", "hrMedia", "velmedia">>
           trained == AtmosphereTrained(targets, tp.clean)
           dir == SaveAll(tp.dir, tp.fit, trained, AtmosphereFeatureNames(tp.clean))
       IN tp' = IF trained # Range(targets)
                THEN [tp EXCEPT !.dir = dir, !.pc = "KeyError"]
                ELSE [tp EXCEPT !.dir = dir,
                                !.reported = @ \cup UNION {ReportColumns(t) : t \in trained},
                                !.pc = "temperature"]
    /\ UNCHANGED <<storeVars, procVars, fdf, trn, sim, art, rt, cln, wr, ld, os, nr, fw, au, ig>>

\* TemperatureModel(data_file).run_training()
temperature_run_training ==
    /\ tp.pc = "temperature"
    /\ LET trained == TemperatureTargets(tp.clean)
       IN tp' = [tp EXCEPT
                   !.dir = SaveAll(tp.dir, tp.fit, trained, TemperatureFeatureNames(tp.clean)),
                   !.reported = @ \cup UNION {ReportColumns(t) : t \in trained},
                   !.pc = "fusion"]
    /\ UNCHANGED <<storeVars, procVars, fdf, trn, sim, art, rt, cln, wr, ld, os, nr, fw, au, ig>>

\* main(): consolidate_results, the rainbow score and the export of valid_cols.
export_forecast ==
    /\ tp.pc = "fusion"
    /\ tp' = [tp EXCEPT !.reported = @ \cup {"rainbow_prob"}, !.pc = "done"]
    /\ UNCHANGED <<storeVars, procVars, fdf, trn, sim, art, rt, cln, wr, ld, os, nr, fw, au, ig>>

TrainRunNext ==
    \/ rain_run_training
    \/ atmosphere_run_training
    \/ temperature_run_training
    \/ export_forecast

-----------------------------------------------------------------------------
(* Claims about the training pipeline on an incomplete data set            *)

\* C23 (as claimed): when the run has ended on a clean data set that lacks
\* some target's historical column, every target whose column is present has
\* been trained, persisted and reported.
C23_MissingTargetSkipped ==
    tp.pc \in {"done", "KeyError"} =>
        \A t \in Range(TARGETS) :
            TargetColumn(t) \in tp.clean =>
                /\ tp.dir[LookupName(t)].kind # "absent"
                /\ ReportColumns(t) \subseteq tp.reported

-----------------------------------------------------------------------------
(* THE SYNTHETIC ROW OF THE SIMULATOR  (src/pipelines/05_recursive_forecast.py) *)

\* Bound: the iterations of the loop that are followed.
RowIters == 2

\* The columns a row of the clean data set gives the simulator, and the
\* columns the loop carries forward when no model has set them.
RowColumns ==
    {"tmed", "tmin", "tmax", "sol", "hrMedia", "velmedia", "prec",
     "presion", "nubes", "dir", "racha"}
CarriedColumns == {"presion", "nubes", "presMin", "dir", "racha"}

\* The last real row of a station: a fixed day with pressure p and gust g.
LastRealRow(p, g) ==
    [c \in RowColumns |->
        IF c = "presion" THEN RatInt(p) ELSE IF c = "racha" THEN RatInt(g) ELSE RatInt(5)]

\* The outputs of the models on a feature row: a probability for "rain", a
\* number for every other target.
ModelOutputs ==
    { [t \in Range(TARGETS) |->
          IF t = "rain" THEN Rat(p, 5) ELSE IF t \in AtmosphereTargets THEN a ELSE 8] :
      p \in {1, 4}, a \in RawPreds }

\* new_row of lines 114-146, without the date and the station's metadata: the
\* targets of the loaded models, the wet/dry proxy when "rain" is loaded, and
\* the carried columns, row.get(col, 0).
SyntheticRow(loaded, val, row) ==
    LET targets == loaded \ {"rain"}
        rain == IF "rain" \in loaded THEN {"prec", "prob_rain"} ELSE {}
        carried == CarriedColumns \ (targets \cup rain)
    IN [c \in targets \cup rain \cup carried |->
           IF c \in targets THEN RatInt(ForecastClip(c, val[c]))
           ELSE IF c = "prec" /\ c \in rain
                THEN (IF RatGT(val["rain"], Rat(1, 2)) THEN RatInt(10) ELSE RatInt(0))
           ELSE IF c = "prob_rain" THEN val["rain"]
           ELSE IF c \in DOMAIN row THEN row[c] ELSE RatInt(0)]

NoRow == [c \in {} |-> NaN]
NoOutputs == [t \in {} |-> 0]
NewRowIdle ==
    nr = [dir |-> <<>>, loaded |-> {}, val |-> NoOutputs, row |-> NoRow,
          new_row |-> NoRow, n |-> 0, pc |-> "idle"]
NewRowInit ==
    \E p \in {1000, 1013}, g \in {0, 30} :
        nr = [dir |-> [f \in ModelFiles |-> NoArtifact], loaded |-> {}, val |-> NoOutputs,
              row |-> LastRealRow(p, g), new_row |-> NoRow, n |-> 0, pc |-> "train"]

\* 03_train_model.main, then RecursiveSimulator.__init__ (_load_models).
train_and_load(fit) ==
    /\ nr.pc = "train"
    /\ LET dir == SaveAll(SaveAll(DumpRainModel(nr.dir, fit), fit, AtmosphereTargets,
                                  AtmosphereFeatureNames(CleanColumns)),
                          fit, {"tmed", "tmin", "tmax"},
                          TemperatureFeatureNames(CleanColumns))
       IN nr' = [nr EXCEPT !.dir = dir,
                           !.loaded = {t \in LoadedTargets(dir) :
                                          dir[LookupName(t)].feature_names # {}},
                           !.pc = "loop"]
    /\ UNCHANGED <<storeVars, procVars, fdf, trn, sim, art, rt, cln, wr, ld, os, tp, fw, au, ig>>

\* One iteration of the loop of run() for one station: the new row, which is
\* the station's last row in the next iteration.
predict_row(val) ==
    /\ nr.pc = "loop" /\ nr.n < RowIters
    /\ LET new_row == SyntheticRow(nr.loaded, val, IF nr.n = 0 THEN nr.row ELSE nr.new_row)
       IN nr' = [nr EXCEPT !.val = val,
                           !.row = IF nr.n = 0 THEN nr.row ELSE nr.new_row,
                           !.new_row = new_row, !.n = @ + 1]
    /\ UNCHANGED <<storeVars, procVars, fdf, trn, sim, art, rt, cln, wr, ld, os, tp, fw, au, ig>>

TrainAndLoad == \E fit \in {1, 2} : train_and_load(fit)
PredictRow == \E val \in ModelOutputs : predict_row(val)
NewRowNext == TrainAndLoad \/ PredictRow

-----------------------------------------------------------------------------
(* Claims about the synthetic row                                          *)

\* C27 (as claimed): every synthetic row has a value for every column the lag
\* and rolling features read; each modelled target holds its prediction, prec
\* holds the wet/dry proxy (10.0 when the rain output is above 0.5, else 0.0),
\* and presion, nubes, presMin, dir and racha repeat the value of the
\* station's previous row (where that row has one).
C27_SyntheticRowComplete ==
    nr.n > 0 =>
        /\ LAG_COLS \cup ROLL_COLS \subseteq DOMAIN nr.new_row
        /\ \A t \in Range(TARGETS) \ {"rain"} :
              t \in DOMAIN nr.new_row /\ nr.new_row[t] = RatInt(ForecastClip(t, nr.val[t]))
        /\ "prec" \in DOMAIN nr.new_row
        /\ nr.new_row["prec"]
              = (IF RatGT(nr.val["rain"], Rat(1, 2)) THEN RatInt(10) ELSE RatInt(0))
        /\ \A c \in CarriedColumns :
              /\ c \in DOMAIN nr.new_row
              /\ c \in DOMAIN nr.row => nr.new_row[c] = nr.row[c]

-----------------------------------------------------------------------------
(* THE LOOK-BACK WINDOW OF create_features  (src/pipelines/05_recursive_forecast.py) *)

\* Bound: the days of accumulated history, more than the look-back.
LongDays == 45

\* Accumulated frames: both stations, one row per day; station A follows a
\* periodic 0/1 pattern with one day flipped, station B the opposite.
LongFrame(period, phase, flipped) ==
    LET value(d) == IF ((d + phase) % period = 0) = (d # flipped) THEN 1 ELSE 0
    IN TupleOf([d \in 1..LongDays |->
                   [st |-> "A", fecha |-> d, tmed |-> RatInt(value(d)),
                    station_id |-> RatInt(0)]], LongDays)
       \o TupleOf([d \in 1..LongDays |->
                   [st |-> "B", fecha |-> d, tmed |-> RatInt(1 - value(d)),
                    station_id |-> RatInt(1)]], LongDays)

WindowIdle == fw = [df |-> <<>>, window |-> <<>>, whole |-> <<>>, pc |-> "idle"]
\* The flipped day: none, a day around the start of the window or one of the
\* last days.
FlippedDays ==
    {0} \cup ((cutoff_date(LongDays) - 3)..(cutoff_date(LongDays) + 2))
        \cup ((LongDays - WINDOWS[3])..LongDays)
WindowInit ==
    \E period \in {2, 3, 5}, flipped \in FlippedDays :
        fw = [df |-> LongFrame(period, 0, flipped), window |-> <<>>, whole |-> <<>>,
              pc |-> "start"]

\* The last feature row of every station, as create_features computes it on
\* the trailing window, and computed on the whole accumulated frame.
last_day_feats ==
    /\ fw.pc = "start"
    /\ fw' = [fw EXCEPT !.window = TailOne(create_features(fw.df)),
                        !.whole = TailOne(WindowFeatures(fw.df)),
                        !.pc = "done"]
    /\ UNCHANGED <<storeVars, procVars, fdf, trn, sim, art, rt, cln, wr, ld, os, tp, nr, au, ig>>

WindowNext == last_day_feats

-----------------------------------------------------------------------------
(* Claims about the look-back window                                       *)

\* C28: with lags (1, 2, 7) and windows (3, 7, 14) the lag, trend and rolling
\* features of every station's last row are the same whether create_features
\* computes them on the trailing 40-day window or on the whole history.
C28_WindowSuffices ==
    fw.pc = "done" =>
        /\ Len(fw.window) = Cardinality(Stations)
        /\ fw.window = fw.whole

\* Witness of C28: the history is longer than the window, the day just before
\* the window differs from the last day, and the longest features are there.
C28_Witness ==
    /\ fw.pc = "done"
    /\ \E i \in DOMAIN fw.df :
          /\ fw.df[i].fecha < cutoff_date(LongDays)
          /\ fw.df[i].st = fw.window[1].st
          /\ fw.df[i].fecha = cutoff_date(LongDays) - 1
          /\ fw.df[i].tmed # fw.window[1].tmed
    /\ ~IsNaN(fw.window[1].tmed_roll_14) /\ ~IsNaN(fw.window[1].tmed_lag_7)
    /\ fw.window[1].tmed_roll_14 # fw.window[1].tmed_roll_7

-----------------------------------------------------------------------------
(* AUDIT AND EXPORT OF THE CLEAN DATA SET  (src/src/etl/processing.py)     *)

\* The columns of the processed frame that the model follows: a station
\* name, three clamped variables, one that is not clamped, and two flags.
AuditColumns == {"nombre", "hrMedia", "sol", "nubes", "tmed", "sol_est", "tmed_est"}

\* One-row processed frames; a frame is its column set and its rows, a row a
\* function from the columns to values.
ProcessedFrames ==
    { [cols |-> AuditColumns,
       rows |-> << [c \in AuditColumns |->
                     CASE c = "nombre" -> RatInt(1)
                       [] c = "hrMedia" -> RatInt(h)
                       [] c = "sol" -> RatInt(s)
                       [] c = "nubes" -> RatInt(n)
                       [] c = "tmed" -> RatInt(-4)
                       [] c = "sol_est" -> RatInt(e1)
                       [] OTHER -> RatInt(e2)] >>] :
      h \in {-5, 50, 120}, s \in {-1, 10, 30}, n \in {-2, 130}, e1 \in {0, 1}, e2 \in {0, 1} }

\* Series.clip(lo, hi) on one value.
Clip(v, lo, hi) ==
    IF RatGT(RatInt(lo), v) THEN RatInt(lo) ELSE IF RatGT(v, RatInt(hi)) THEN RatInt(hi) ELSE v

\* Lines 287-292: the three clips, assigned into the frame passed in.
PhysicalClips(df) ==
    [df EXCEPT !.rows =
        TupleOf([i \in DOMAIN df.rows |->
                    [c \in DOMAIN df.rows[i] |->
                        IF c = "hrMedia" THEN Clip(df.rows[i][c], 0, 100)
                        ELSE IF c = "sol" THEN Clip(df.rows[i][c], 0, 24)
                        ELSE IF c = "nubes" THEN Clip(df.rows[i][c], 0, 100)
                        ELSE df.rows[i][c]]], Len(df.rows))]

\* est_cols = [c for c in df.columns if c.endswith("_est")]
EstCols(df) == df.cols \cap {"sol_est", "tmed_est", "hrMedia_est", "nubes_est"}

\* Line 304: df["_quality_score"] = df[est_cols].mean(axis=1), assigned into
\* the frame passed in.
WithQualityScore(df) ==
    LET est_cols == EstCols(df)
        score(row) == Rat(Cardinality({c \in est_cols : row[c] = RatInt(1)}),
                          Cardinality(est_cols))
    IN [cols |-> df.cols \cup {"_quality_score"},
        rows |-> TupleOf([i \in DOMAIN df.rows |->
                    [c \in df.cols \cup {"_quality_score"} |->
                        IF c = "_quality_score" THEN score(df.rows[i])
                        ELSE df.rows[i][c]]], Len(df.rows))]

\* Line 312: df = df.drop(columns=["_quality_score"]) makes a new frame and
\* binds audit_data's local name to it.
DropQualityScore(df) ==
    [cols |-> df.cols \ {"_quality_score"},
     rows |-> TupleOf([i \in DOMAIN df.rows |->
                 [c \in df.cols \ {"_quality_score"} |-> df.rows[i][c]]], Len(df.rows))]

\* What execute() would hold had audit_data handed back the frame its drop
\* returned.
FrameAfterDrop(passed, local) == local
\* What execute() holds after self.audit_data(df): the frame it passed, with
\* every assignment made into it; audit_data returns nothing.
FrameAfterAudit(passed, local) == passed

NoFrameHeld == [cols |-> {}, rows |-> <<>>]
AuditIdle == au = [input |-> NoFrameHeld, df |-> NoFrameHeld, csv |-> NoFrameHeld, pc |-> "idle"]
AuditInit ==
    \E df \in ProcessedFrames :
        au = [input |-> df, df |-> df, csv |-> NoFrameHeld, pc |-> "processed"]

\* self.audit_data(df)
audit_data ==
    /\ au.pc = "processed"
    /\ LET clipped == PhysicalClips(au.df)
           passed == IF EstCols(clipped) # {} THEN WithQualityScore(clipped) ELSE clipped
           local == IF EstCols(clipped) # {} THEN DropQualityScore(passed) ELSE passed
       IN au' = [au EXCEPT !.df = FrameAfterAudit(passed, local), !.pc = "audited"]
    /\ UNCHANGED <<storeVars, procVars, fdf, trn, sim, art, rt, cln, wr, ld, os, tp, nr, fw, ig>>

\* execute(): sort_values(...).reset_index(drop=True) and to_csv.
write_clean_data ==
    /\ au.pc = "audited"
    /\ au' = [au EXCEPT !.csv = au.df, !.pc = "written"]
    /\ UNCHANGED <<storeVars, procVars, fdf, trn, sim, art, rt, cln, wr, ld, os, tp, nr, fw, ig>>

AuditNext == audit_data \/ write_clean_data

-----------------------------------------------------------------------------
(* Claims about the audit                                                  *)

\* C29 (as claimed): audit_data changes nothing in the frame except that
\* hrMedia, sol and nubes are clamped to [0, 100], [0, 24] and [0, 100], and
\* the clean data set written by execute holds the processed columns only,
\* with no audit helper column such as _quality_score.
C29_AuditOnlyClamps ==
    /\ au.pc \in {"audited", "written"} => au.df = PhysicalClips(au.input)
    /\ au.pc = "written" =>
          /\ au.csv.cols = au.input.cols
          /\ "_quality_score" \notin au.csv.cols
          /\ au.csv.rows = PhysicalClips(au.input).rows

-----------------------------------------------------------------------------
(* THE INGESTION LOOP  (src/pipelines/01_ingest_data.py)                   *)

\* Bound: the calendar years from START_DATE to END_DATE.
IngestYears == 3

\* Every date the loop computes is the first or the last day of a month: a
\* date is twice the count of its month plus 0 (first day) or 1 (last day),
\* so that the day after the last day of a month is the first of the next.
FirstOf(year, month) == 2 * (12 * year + month - 1)
LastOf(year, month) == FirstOf(year, month) + 1
YearOf(date) == (date \div 2) \div 12

\* PipelineParams.START_DATE = datetime(2009, 1, 1) and END_DATE, the 31st of
\* December of the last year.
START_YEAR == 2009
START_DATE == FirstOf(START_YEAR, 1)
END_DATE == LastOf(START_YEAR + IngestYears - 1, 12)

\* Mutant of next_cycle: relativedelta(months=9).
next_cycle_nine(current_date) == current_date + 2 * 9
\* next_cycle_start = current_date + relativedelta(months=6), for the first
\* day of a month.
next_cycle(current_date) == current_date + 2 * 6

\* query_end: the day before next_cycle_start, capped at the global end.
get_next_period(current_date, global_end_date) ==
    LET next_cycle_start == next_cycle(current_date)
        query_end == next_cycle_start - 1
    IN [query_end |-> IF query_end > global_end_date THEN global_end_date ELSE query_end,
        next_cycle_start |-> next_cycle_start]

\* What the loop does, in order: requests, batch files written, calls of
\* consolidate_year.
FetchEvent(start, end) == [kind |-> "fetch", start |-> start, end |-> end, year |-> 0]
SaveEvent(start, end) == [kind |-> "save", start |-> start, end |-> end, year |-> YearOf(start)]
ConsolidateEvent(year) == [kind |-> "consolidate", start |-> 0, end |-> 0, year |-> year]

IngestIdle == ig = [current_date |-> 0, processed_year |-> 0, events |-> <<>>, pc |-> "idle"]
IngestInit ==
    ig = [current_date |-> START_DATE, processed_year |-> YearOf(START_DATE),
          events |-> <<>>, pc |-> "loop"]

\* One pass of "while current_date < PipelineParams.END_DATE"; has_data tells
\* whether fetch_with_retry_logic returned records.
ingest_window(has_data) ==
    /\ ig.pc = "loop" /\ ig.current_date < END_DATE
    /\ LET period == get_next_period(ig.current_date, END_DATE)
           year_changed == YearOf(ig.current_date) > ig.processed_year
       IN ig' = [ig EXCEPT
                   !.events = @ \o (IF year_changed
                                    THEN <<ConsolidateEvent(ig.processed_year)>> ELSE <<>>)
                                \o <<FetchEvent(ig.current_date, period.query_end)>>
                                \o (IF has_data
                                    THEN <<SaveEvent(ig.current_date, period.query_end)>>
                                    ELSE <<>>),
                   !.processed_year = IF year_changed THEN YearOf(ig.current_date) ELSE @,
                   !.current_date = period.next_cycle_start]
    /\ UNCHANGED <<storeVars, procVars, fdf, trn, sim, art, rt, cln, wr, ld, os, tp, nr, fw, au>>

\* After the loop: the last year of the station is consolidated.
station_completed ==
    /\ ig.pc = "loop" /\ ~(ig.current_date < END_DATE)
    /\ ig' = [ig EXCEPT !.events = Append(@, ConsolidateEvent(ig.processed_year)),
                        !.pc = "done"]
    /\ UNCHANGED <<storeVars, procVars, fdf, trn, sim, art, rt, cln, wr, ld, os, tp, nr, fw, au>>

IngestWindow == \E has_data \in BOOLEAN : ingest_window(has_data)
IngestNext == IngestWindow \/ station_completed

-----------------------------------------------------------------------------
(* Claims about the ingestion loop                                         *)

\* The positions of the events of a kind, in order.
EventsOf(kind) == SetToSeq({k \in DOMAIN ig.events : ig.events[k].kind = kind})
Years == START_YEAR..(START_YEAR + IngestYears - 1)

\* The requested windows are consecutive from START_DATE, each inside one
\* calendar year and none ending after END_DATE.
WindowsTile ==
    LET w == EventsOf("fetch") IN
    \A j \in DOMAIN w :
        LET e == ig.events[w[j]] IN
        /\ e.start = (IF j = 1 THEN START_DATE ELSE ig.events[w[j - 1]].end + 1)
        /\ e.start <= e.end /\ e.end <= END_DATE
        /\ YearOf(e.start) = YearOf(e.end)
        /\ e.end - e.start = next_cycle(0) - 1

\* A batch file is written for a window exactly when the window had data: a
\* save event comes right after its request and nowhere else.
BatchOnlyWithData ==
    \A k \in DOMAIN ig.events :
        ig.events[k].kind = "save" =>
            /\ k > 1 /\ ig.events[k - 1].kind = "fetch"
            /\ ig.events[k - 1].start = ig.events[k].start
            /\ ig.events[k - 1].end = ig.events[k].end

\* consolidate_year(Y) is called at most once, after every request of year Y
\* has been made and before any batch file of a later year is written.
ConsolidateBetweenYears ==
    \A k \in DOMAIN ig.events :
        ig.events[k].kind = "consolidate" =>
            LET y == ig.events[k].year IN
            /\ \A j \in DOMAIN ig.events :
                  (ig.events[j].kind = "consolidate" /\ ig.events[j].year = y) => j = k
            /\ \E j \in 1..(k - 1) :
                  ig.events[j].kind = "fetch" /\ ig.events[j].end = LastOf(y, 12)
            /\ \A j \in DOMAIN ig.events :
                  (ig.events[j].kind = "save" /\ ig.events[j].year > y) => j > k
            /\ \A j \in DOMAIN ig.events :
                  (ig.events[j].kind = "fetch" /\ YearOf(ig.events[j].start) <= y) => j < k

\* C30: run_ingestion requests consecutive 6-month windows that tile
\* [START_DATE, END_DATE], each inside one calendar year and none ending after
\* END_DATE; the loop ends after a fixed number of windows; a window without
\* data writes no batch file; consolidate_year(Y) is called exactly once per
\* year, after the last window of Y and before any batch file of Y + 1.
C30_WindowsAndConsolidation ==
    /\ WindowsTile /\ BatchOnlyWithData /\ ConsolidateBetweenYears
    /\ Len(EventsOf("fetch")) <= 2 * IngestYears
    /\ ig.pc = "done" =>
          /\ Len(EventsOf("fetch")) = 2 * IngestYears
          /\ ig.events[EventsOf("fetch")[2 * IngestYears]].end = END_DATE
          /\ \A y \in Years :
                \E k \in DOMAIN ig.events :
                    ig.events[k].kind = "consolidate" /\ ig.events[k].year = y

\* Witness of C30: a finished station with a window that had data and a
\* window that had none.
C30_Witness ==
    /\ ig.pc = "done"
    /\ Len(EventsOf("save")) > 0
    /\ Len(EventsOf("save")) < Len(EventsOf("fetch"))
    /\ Len(EventsOf("consolidate")) = IngestYears

-----------------------------------------------------------------------------
(* Specifications                                                          *)

StoreSpecInit ==
    StoreIdle /\ ProcIdle /\ FeatIdle /\ TrainIdle /\ SimIdle /\ ArtIdle
    /\ RetryIdle /\ CleanIdle /\ SchemaIdle /\ LoadIdle /\ OneStepIdle /\ TrainRunIdle
    /\ NewRowIdle /\ WindowIdle /\ AuditIdle /\ IngestIdle
SpecStore == StoreSpecInit /\ [][StoreNext]_vars

ProcSpecInit ==
    StoreIdle /\ ProcInit /\ FeatIdle /\ TrainIdle /\ SimIdle /\ ArtIdle
    /\ RetryIdle /\ CleanIdle /\ SchemaIdle /\ LoadIdle /\ OneStepIdle /\ TrainRunIdle
    /\ NewRowIdle /\ WindowIdle /\ AuditIdle /\ IngestIdle
SpecProc == ProcSpecInit /\ [][ProcNext]_vars

FeatSpecInit ==
    StoreIdle /\ ProcIdle /\ FeatInit /\ TrainIdle /\ SimIdle /\ ArtIdle
    /\ RetryIdle /\ CleanIdle /\ SchemaIdle /\ LoadIdle /\ OneStepIdle /\ TrainRunIdle
    /\ NewRowIdle /\ WindowIdle /\ AuditIdle /\ IngestIdle
SpecFeat == FeatSpecInit /\ [][FeatNext]_vars

TrainSpecInit ==
    StoreIdle /\ ProcIdle /\ FeatIdle /\ TrainInit /\ SimIdle /\ ArtIdle
    /\ RetryIdle /\ CleanIdle /\ SchemaIdle /\ LoadIdle /\ OneStepIdle /\ TrainRunIdle
    /\ NewRowIdle /\ WindowIdle /\ AuditIdle /\ IngestIdle
SpecTrain == TrainSpecInit /\ [][TrainNext]_vars

RainExampleSpecInit ==
    StoreIdle /\ ProcIdle /\ FeatIdle /\ RainExampleInit /\ SimIdle /\ ArtIdle
    /\ RetryIdle /\ CleanIdle /\ SchemaIdle /\ LoadIdle /\ OneStepIdle /\ TrainRunIdle
    /\ NewRowIdle /\ WindowIdle /\ AuditIdle /\ IngestIdle
SpecRainExample == RainExampleSpecInit /\ [][RainExampleNext]_vars

SimSpecInit ==
    StoreIdle /\ ProcIdle /\ FeatIdle /\ TrainIdle /\ SimInit /\ ArtIdle
    /\ RetryIdle /\ CleanIdle /\ SchemaIdle /\ LoadIdle /\ OneStepIdle /\ TrainRunIdle
    /\ NewRowIdle /\ WindowIdle /\ AuditIdle /\ IngestIdle
SpecSim == SimSpecInit /\ [][SimNext]_vars

ArtSpecInit ==
    StoreIdle /\ ProcIdle /\ FeatIdle /\ TrainIdle /\ SimIdle /\ ArtInit
    /\ RetryIdle /\ CleanIdle /\ SchemaIdle /\ LoadIdle /\ OneStepIdle /\ TrainRunIdle
    /\ NewRowIdle /\ WindowIdle /\ AuditIdle /\ IngestIdle
SpecArt == ArtSpecInit /\ [][ArtNext]_vars

RetrySpecInit ==
    StoreIdle /\ ProcIdle /\ FeatIdle /\ TrainIdle /\ SimIdle /\ ArtIdle
    /\ RetryInit /\ CleanIdle /\ SchemaIdle /\ LoadIdle /\ OneStepIdle /\ TrainRunIdle
    /\ NewRowIdle /\ WindowIdle /\ AuditIdle /\ IngestIdle
SpecRetry == RetrySpecInit /\ [][RetryNext]_vars

CleanSpecInit ==
    StoreIdle /\ ProcIdle /\ FeatIdle /\ TrainIdle /\ SimIdle /\ ArtIdle
    /\ RetryIdle /\ CleanInit /\ SchemaIdle /\ LoadIdle /\ OneStepIdle /\ TrainRunIdle
    /\ NewRowIdle /\ WindowIdle /\ AuditIdle /\ IngestIdle
SpecClean == CleanSpecInit /\ [][CleanNext]_vars

SchemaSpecInit ==
    StoreIdle /\ ProcIdle /\ FeatIdle /\ TrainIdle /\ SimIdle /\ ArtIdle
    /\ RetryIdle /\ CleanIdle /\ SchemaInit /\ LoadIdle /\ OneStepIdle /\ TrainRunIdle
    /\ NewRowIdle /\ WindowIdle /\ AuditIdle /\ IngestIdle
SpecSchema == SchemaSpecInit /\ [][SchemaNext]_vars

LoadSpecInit ==
    StoreIdle /\ ProcIdle /\ FeatIdle /\ TrainIdle /\ SimIdle /\ ArtIdle
    /\ RetryIdle /\ CleanIdle /\ SchemaIdle /\ LoadInit /\ OneStepIdle /\ TrainRunIdle
    /\ NewRowIdle /\ WindowIdle /\ AuditIdle /\ IngestIdle
SpecLoad == LoadSpecInit /\ [][LoadNext]_vars

OneStepSpecInit ==
    StoreIdle /\ ProcIdle /\ FeatIdle /\ TrainIdle /\ SimIdle /\ ArtIdle
    /\ RetryIdle /\ CleanIdle /\ SchemaIdle /\ LoadIdle /\ OneStepInit /\ TrainRunIdle
    /\ NewRowIdle /\ WindowIdle /\ AuditIdle /\ IngestIdle
SpecOneStep == OneStepSpecInit /\ [][OneStepNext]_vars

TrainRunSpecInit ==
    StoreIdle /\ ProcIdle /\ FeatIdle /\ TrainIdle /\ SimIdle /\ ArtIdle
    /\ RetryIdle /\ CleanIdle /\ SchemaIdle /\ LoadIdle /\ OneStepIdle /\ TrainRunInit
    /\ NewRowIdle /\ WindowIdle /\ AuditIdle /\ IngestIdle
SpecTrainRun == TrainRunSpecInit /\ [][TrainRunNext]_vars

NewRowSpecInit ==
    StoreIdle /\ ProcIdle /\ FeatIdle /\ TrainIdle /\ SimIdle /\ ArtIdle
    /\ RetryIdle /\ CleanIdle /\ SchemaIdle /\ LoadIdle /\ OneStepIdle /\ TrainRunIdle
    /\ NewRowInit /\ WindowIdle /\ AuditIdle /\ IngestIdle
SpecNewRow == NewRowSpecInit /\ [][NewRowNext]_vars

WindowSpecInit ==
    StoreIdle /\ ProcIdle /\ FeatIdle /\ TrainIdle /\ SimIdle /\ ArtIdle
    /\ RetryIdle /\ CleanIdle /\ SchemaIdle /\ LoadIdle /\ OneStepIdle /\ TrainRunIdle
    /\ NewRowIdle /\ WindowInit /\ AuditIdle /\ IngestIdle
SpecWindow == WindowSpecInit /\ [][WindowNext]_vars

AuditSpecInit ==
    StoreIdle /\ ProcIdle /\ FeatIdle /\ TrainIdle /\ SimIdle /\ ArtIdle
    /\ RetryIdle /\ CleanIdle /\ SchemaIdle /\ LoadIdle /\ OneStepIdle /\ TrainRunIdle
    /\ NewRowIdle /\ WindowIdle /\ AuditInit /\ IngestIdle
SpecAudit == AuditSpecInit /\ [][AuditNext]_vars

IngestSpecInit ==
    StoreIdle /\ ProcIdle /\ FeatIdle /\ TrainIdle /\ SimIdle /\ ArtIdle
    /\ RetryIdle /\ CleanIdle /\ SchemaIdle /\ LoadIdle /\ OneStepIdle /\ TrainRunIdle
    /\ NewRowIdle /\ WindowIdle /\ AuditIdle /\ IngestInit
SpecIngest == IngestSpecInit /\ [][IngestNext]_vars

====
